---- MODULE Spec2Model ----
(***************************************************************************)
(* Portfolio chatbot core: ConversationManager (message history, ids,      *)
(* serialize/restore, getHistory/getContext), QueryProcessor               *)
(* (processQueryWithTimeout on the single-threaded event loop,             *)
(* detectIntent, generateResponse, processQuery) and KnowledgeBase         *)
(* (_calculateRelevance, query, search), and the page around them:         *)
(* ChatWidget (open/close, _submitMessage, timers, destroy), the wiring of *)
(* initializeChatbot and ChatbotLoader.lazyLoad.                           *)
(***************************************************************************)
EXTENDS Integers, Sequences, FiniteSets, TLC

VARIABLES
    messages,           \* ConversationManager.messages
    messageIdCounter,   \* ConversationManager.messageIdCounter
    maxMessages,        \* ConversationManager.maxMessages
    added,              \* history variable: every message addMessage returned, in order
    storage,            \* the external store holding the last serialize() output
    last,               \* the last ConversationManager call and what it returned
    call,               \* the processQueryWithTimeout call in progress (section 2)
    qp,                 \* the QueryProcessor call made and what it returned (section 3)
    ks,                 \* the KnowledgeBase call made and what it returned (section 4)
    caller,             \* what a caller of getHistory / getContext holds (section 5)
    widget,             \* the ChatWidget object, its timers and the clock (section 6)
    page,               \* the page wiring: initializeChatbot and its handlers (section 7)
    loader              \* ChatbotLoader and the callbacks it scheduled (section 8)

cmVars == <<messages, messageIdCounter, maxMessages, added, storage, last>>
uiVars == <<widget, page, loader>>
vars == <<messages, messageIdCounter, maxMessages, added, storage, last, call,
          qp, ks, caller, widget, page, loader>>

(***************************************************************************)
(* Bounds and input domains                                                *)
(***************************************************************************)
\* addMessage calls that succeed in one run
MaxAdds == 2

\* static MAX_MESSAGE_HISTORY = 100
MAX_MESSAGE_HISTORY == 100

\* options.maxMessages given to the constructor; 0 stands for every falsy
\* value (absent, undefined, 0), which `||` replaces by the default.
CapOptions == {0, 1, 2}

\* Values Date.now() may return; reads are independent of each other.
Clock == {1, 2}

\* The timestamp argument: NoTimestamp is the default parameter value null
\* (argument absent), which is how the page wiring calls addMessage; any
\* other value is an integer epoch-ms timestamp.
NoTimestamp == -1
TimestampArgs == {NoTimestamp}

\* The message argument, by type, with the text String(message) gives.
ContentArgs ==
    { [type |-> "null", text |-> "null"],
      [type |-> "undefined", text |-> "undefined"],
      [type |-> "string", text |-> "hi"] }

\* The sender argument; "" stands for the falsy ones (undefined, null, "").
SenderArgs == {"user", "bot", "admin", ""}

validSenders == {"user", "bot"}

(***************************************************************************)
(* 1. ConversationManager                                                  *)
(***************************************************************************)

\* constructor: this.maxMessages = options.maxMessages || MAX_MESSAGE_HISTORY
ConstructMaxMessages(opt) == IF opt = 0 THEN MAX_MESSAGE_HISTORY ELSE opt

\* `msg_${Date.now()}_${this.messageIdCounter}`: the two numbers, in decimal,
\* between fixed separators; two ids are equal iff both numbers are.
FormatId(now, counter) == <<"msg", now, counter>>

EnforceMessageLimitKeepOldest(msgs, cap) ==
    IF Len(msgs) > cap THEN SubSeq(msgs, 1, cap) ELSE msgs

\* _enforceMessageLimit: splice(0, length - maxMessages)
EnforceMessageLimit(msgs, cap) ==
    IF Len(msgs) > cap
    THEN LET excessCount == Len(msgs) - cap
         IN  SubSeq(msgs, excessCount + 1, Len(msgs))
    ELSE msgs

State ==
    [messages |-> messages, messageIdCounter |-> messageIdCounter,
     maxMessages |-> maxMessages]

AddMessageResultEagerId(st, message, sender, timestamp, now1, now2) ==
    LET counter == st.messageIdCounter + 1 IN
    IF message.type \in {"undefined", "null"} \/ sender \notin validSenders
    THEN [threw |-> TRUE, messages |-> st.messages, messageIdCounter |-> counter]
    ELSE LET messageObject ==
                 [id |-> FormatId(now1, counter),
                  content |-> message.text,
                  sender |-> sender,
                  timestamp |-> IF timestamp # NoTimestamp THEN timestamp ELSE now2]
         IN  [threw |-> FALSE,
              messages |-> EnforceMessageLimit(Append(st.messages, messageObject), st.maxMessages),
              messageIdCounter |-> counter,
              messageObject |-> messageObject]

\* addMessage(message, sender, timestamp = null); now1 and now2 are the two
\* Date.now() reads (in _generateId and for the default timestamp).
AddMessageResult(st, message, sender, timestamp, now1, now2) ==
    IF message.type \in {"undefined", "null"}
    THEN [threw |-> TRUE, messages |-> st.messages, messageIdCounter |-> st.messageIdCounter]
    ELSE IF sender = "" \/ sender \notin validSenders
    THEN [threw |-> TRUE, messages |-> st.messages, messageIdCounter |-> st.messageIdCounter]
    ELSE LET counter == st.messageIdCounter + 1
             messageObject ==
                 [id |-> FormatId(now1, counter),
                  content |-> message.text,
                  sender |-> sender,
                  timestamp |-> IF timestamp # NoTimestamp THEN timestamp ELSE now2]
         IN  [threw |-> FALSE,
              messages |-> EnforceMessageLimit(Append(st.messages, messageObject), st.maxMessages),
              messageIdCounter |-> counter,
              messageObject |-> messageObject]

AddMessage ==
    /\ Len(added) < MaxAdds
    /\ \E message \in ContentArgs, sender \in SenderArgs,
          timestamp \in TimestampArgs, now1 \in Clock, now2 \in Clock :
          LET r == AddMessageResult(State, message, sender, timestamp, now1, now2) IN
          /\ messages' = r.messages
          /\ messageIdCounter' = r.messageIdCounter
          /\ added' = IF r.threw THEN added ELSE Append(added, r.messageObject)
          /\ last' = [op |-> "addMessage",
                      ret |-> IF r.threw THEN "throw" ELSE "message",
                      arg |-> "none", type |-> message.type, sender |-> sender]
    /\ UNCHANGED <<uiVars, maxMessages, storage, call, qp, ks, caller>>

ClearedCounterReset(counter) == 0

\* clear() leaves messageIdCounter alone
ClearedCounter(counter) == counter

Clear ==
    /\ messages' = <<>>
    /\ messageIdCounter' = ClearedCounter(messageIdCounter)
    /\ last' = [op |-> "clear", ret |-> "undefined", arg |-> "none", type |-> "none", sender |-> "none"]
    /\ UNCHANGED <<uiVars, maxMessages, added, storage, call, qp, ks, caller>>

\* JSON.stringify of one message: its four values in key order (id, content,
\* sender, timestamp); strings and integers are written and read back as
\* themselves.
JSONStringifyMessage(m) == <<m.id, m.content, m.sender, m.timestamp>>

JSONParseMessage(t) ==
    [id |-> t[1], content |-> t[2], sender |-> t[3], timestamp |-> t[4]]

\* The messages array, element by element.
JSONStringifyMessages(msgs) ==
    [i \in 1..Len(msgs) |-> JSONStringifyMessage(msgs[i])]

JSONParseMessages(texts) ==
    [i \in 1..Len(texts) |-> JSONParseMessage(texts[i])]

\* A string handed to restore(): text JSON.parse rejects ("garbage"), the
\* JSON text null, or the JSON text of a value whose properties can be read
\* ("object"), with or without an array `messages` and a numeric
\* `messageIdCounter`.
Garbage == [kind |-> "garbage", hasMessages |-> FALSE, messages |-> <<>>,
            hasCounter |-> FALSE, messageIdCounter |-> 0]
JsonNull == [kind |-> "null", hasMessages |-> FALSE, messages |-> <<>>,
             hasCounter |-> FALSE, messageIdCounter |-> 0]
EmptyObject == [kind |-> "object", hasMessages |-> FALSE, messages |-> <<>>,
                hasCounter |-> FALSE, messageIdCounter |-> 0]

\* serialize(): JSON.stringify({messages, messageIdCounter})
SerializeResult(st) ==
    [kind |-> "object",
     hasMessages |-> TRUE,
     messages |-> JSONStringifyMessages(st.messages),
     hasCounter |-> TRUE,
     messageIdCounter |-> st.messageIdCounter]

\* The external store (sessionStorage in the page wiring): a saved blob and,
\* as a history variable, the state it was serialized from.
Serialize ==
    /\ storage' = [saved |-> TRUE, text |-> SerializeResult(State),
                   snapMessages |-> messages, snapCounter |-> messageIdCounter]
    /\ last' = [op |-> "serialize", ret |-> "string", arg |-> "none", type |-> "none", sender |-> "none"]
    /\ UNCHANGED <<uiVars, messages, messageIdCounter, maxMessages, added, call, qp, ks, caller>>

RestoreResultNoCounter(st, data) ==
    IF data.kind # "object"
    THEN [ret |-> "false", messages |-> st.messages,
          messageIdCounter |-> st.messageIdCounter]
    ELSE [ret |-> "true",
          messages |-> IF data.hasMessages
                       THEN JSONParseMessages(data.messages)
                       ELSE st.messages,
          messageIdCounter |-> st.messageIdCounter]

RestoreResultResetFirst(st, data) ==
    IF data.kind # "object"
    THEN [ret |-> "false", messages |-> <<>>,
          messageIdCounter |-> st.messageIdCounter]
    ELSE [ret |-> "true",
          messages |-> IF data.hasMessages
                       THEN JSONParseMessages(data.messages)
                       ELSE st.messages,
          messageIdCounter |-> IF data.hasCounter
                               THEN data.messageIdCounter
                               ELSE st.messageIdCounter]

RestoreResultEnforcesCap(st, data) ==
    IF data.kind \in {"garbage", "null"}
    THEN [ret |-> "false", messages |-> st.messages,
          messageIdCounter |-> st.messageIdCounter]
    ELSE [ret |-> "true",
          messages |-> IF data.hasMessages
                       THEN EnforceMessageLimit(JSONParseMessages(data.messages),
                                                st.maxMessages)
                       ELSE st.messages,
          messageIdCounter |-> IF data.hasCounter
                               THEN data.messageIdCounter
                               ELSE st.messageIdCounter]

\* restore(data): JSON.parse throws on garbage; reading parsed.messages throws
\* on null; both are caught and give false before anything is assigned.
RestoreResult(st, data) ==
    IF data.kind = "garbage"
    THEN [ret |-> "false", messages |-> st.messages,
          messageIdCounter |-> st.messageIdCounter]
    ELSE IF data.kind = "null"
    THEN [ret |-> "false", messages |-> st.messages,
          messageIdCounter |-> st.messageIdCounter]
    ELSE [ret |-> "true",
          messages |-> IF data.hasMessages
                       THEN JSONParseMessages(data.messages)
                       ELSE st.messages,
          messageIdCounter |-> IF data.hasCounter
                               THEN data.messageIdCounter
                               ELSE st.messageIdCounter]

\* The strings restore() is called with: the stored blob ("stored"), and
\* blobs that are not serialize() outputs: unparsable text, the text null,
\* the text {}, the text {"messages":[]} and the text {"messageIdCounter":0}.
RestoreArgs ==
    {"stored", "garbage", "null", "empty", "onlyMessages", "onlyCounter"}

DataOf(arg) ==
    CASE arg = "stored" -> storage.text
      [] arg = "garbage" -> Garbage
      [] arg = "null" -> JsonNull
      [] arg = "empty" -> EmptyObject
      [] arg = "onlyMessages" -> [EmptyObject EXCEPT !.hasMessages = TRUE]
      [] arg = "onlyCounter" -> [EmptyObject EXCEPT !.hasCounter = TRUE]

Restore ==
    \E arg \in RestoreArgs :
        LET r == RestoreResult(State, DataOf(arg)) IN
        /\ arg = "stored" => storage.saved
        /\ messages' = r.messages
        /\ messageIdCounter' = r.messageIdCounter
        /\ last' = [op |-> "restore", ret |-> r.ret, arg |-> arg,
                    type |-> "none", sender |-> "none"]
        /\ UNCHANGED <<uiVars, maxMessages, added, storage, call, qp, ks, caller>>

\* restore() of the blob the store holds, written by serialize() on this
\* manager at some earlier point
RestoreStored ==
    /\ storage.saved
    /\ LET r == RestoreResult(State, storage.text) IN
       /\ messages' = r.messages
       /\ messageIdCounter' = r.messageIdCounter
       /\ last' = [op |-> "restore", ret |-> r.ret, arg |-> "stored",
                   type |-> "none", sender |-> "none"]
    /\ UNCHANGED <<uiVars, maxMessages, added, storage, call, qp, ks, caller>>

\* A page load: `new ConversationManager()` over the same external store.
NewManager ==
    /\ messages' = <<>>
    /\ messageIdCounter' = 0
    /\ last' = [op |-> "constructor", ret |-> "undefined", arg |-> "none", type |-> "none", sender |-> "none"]
    /\ UNCHANGED <<uiVars, maxMessages, added, storage, call, qp, ks, caller>>

\* addMessage calls in the behaviours that restore a history over the cap
MaxRestored == 4

\* addMessage(message, 'user'), with the clock standing still
AddUserMessage ==
    /\ Len(added) < MaxRestored
    /\ \E message \in ContentArgs :
          LET r == AddMessageResult(State, message, "user", NoTimestamp, 1, 1) IN
          /\ messages' = r.messages
          /\ messageIdCounter' = r.messageIdCounter
          /\ added' = IF r.threw THEN added ELSE Append(added, r.messageObject)
          /\ last' = [op |-> "addMessage",
                      ret |-> IF r.threw THEN "throw" ELSE "message",
                      arg |-> "none", type |-> message.type, sender |-> "user"]
    /\ UNCHANGED <<uiVars, maxMessages, storage, call, qp, ks, caller>>

\* A page load with a cap of its own: `new ConversationManager({maxMessages})`
\* over the same external store.
NewManagerWithCap ==
    /\ \E opt \in CapOptions :
          maxMessages' = ConstructMaxMessages(opt)
    /\ messages' = <<>>
    /\ messageIdCounter' = 0
    /\ last' = [op |-> "constructor", ret |-> "undefined", arg |-> "none", type |-> "none", sender |-> "none"]
    /\ UNCHANGED <<uiVars, added, storage, call, qp, ks, caller>>

(***************************************************************************)
(* 2. QueryProcessor.processQueryWithTimeout on the event loop             *)
(*                                                                         *)
(* Time is counted in units of 1000 ms since the call.  JavaScript runs a  *)
(* task to completion: while processQuery runs inside the promise executor *)
(* no timer callback and no continuation can run.                          *)
(***************************************************************************)

\* longest processQuery run, and longest wait after it, in time units
MaxWork == 4

\* this.responseTimeout = options.responseTimeout || 2000
responseTimeout == 2

\* The timeout argument; 0 stands for the falsy ones (null, absent).
TimeoutArgs == {0, 1, 3}

Intents ==
    {"experience", "skills", "projects", "awards", "contact",
     "certifications", "personal", "general"}

\* The query argument: a string with the intent detectIntent finds in it, or
\* an empty / whitespace-only string.
QueryArgs ==
    {[kind |-> "text", intent |-> i] : i \in Intents}
    \cup {[kind |-> "blank", intent |-> "general"]}

NoValue ==
    [response |-> <<"none">>, suggestions |-> "none",
     timedOut |-> FALSE, error |-> FALSE]

IdleCall ==
    [pc |-> "idle", query |-> [kind |-> "blank", intent |-> "general"],
     timeoutMs |-> 0, elapsed |-> 0, timer |-> "none", promise |-> "pending",
     value |-> NoValue, resolveCalls |-> 0, raised |-> FALSE, settledAt |-> 0,
     deliveries |-> 0]

\* getSuggestions: suggestionsByIntent[intent] || suggestionsByIntent.general;
\* every intent has its own list, named here by its key.
GetSuggestions(intent) == IF intent \in Intents THEN intent ELSE "general"

\* processQuery when it returns: the fixed reply to a blank query, else the
\* response generated for the detected intent with that intent's suggestions.
ProcessQueryResult(query) ==
    IF query.kind = "blank"
    THEN [response |-> <<"didntCatch">>, suggestions |-> "general"]
    ELSE [response |-> <<"generated", query.intent>>,
          suggestions |-> GetSuggestions(query.intent)]

\* _generateTimeoutFallbackResponse: quickResponses[intent] || general
GenerateTimeoutFallbackResponse(query) ==
    IF query.kind = "blank" THEN <<"quick", "general">>
    ELSE <<"quick", query.intent>>

\* _generateErrorFallbackResponse
GenerateErrorFallbackResponse == <<"errorFallback">>

\* resolve(v) of `new Promise((resolve) => ...)`: the first call fulfils the
\* promise, later calls change nothing.
Resolve(c, v) ==
    [c EXCEPT !.resolveCalls = @ + 1,
              !.promise = IF @ = "pending" THEN "fulfilled" ELSE @,
              !.value = IF c.promise = "pending" THEN v ELSE @]

\* The setTimeout callback.
TimeoutHandler(c) ==
    [Resolve(c, [response |-> GenerateTimeoutFallbackResponse(c.query),
                 suggestions |-> "general",
                 timedOut |-> TRUE, error |-> FALSE])
        EXCEPT !.timer = "fired"]

SettleNoClearTimeout(c, raised) ==
    IF ~raised
    THEN LET result == ProcessQueryResult(c.query) IN
         Resolve(c, [response |-> result.response,
                     suggestions |-> result.suggestions,
                     timedOut |-> FALSE, error |-> FALSE])
    ELSE Resolve(c, [response |-> GenerateErrorFallbackResponse,
                     suggestions |-> "general",
                     timedOut |-> FALSE, error |-> TRUE])

SettleRethrow(c, raised) ==
    IF ~raised
    THEN LET result == ProcessQueryResult(c.query) IN
         Resolve([c EXCEPT !.timer = "cleared"],
                 [response |-> result.response,
                  suggestions |-> result.suggestions,
                  timedOut |-> FALSE, error |-> FALSE])
    ELSE [c EXCEPT !.timer = "cleared", !.promise = "rejected"]

\* The try/catch of the executor once processQuery has returned or raised:
\* clearTimeout(timeoutId), then resolve.
Settle(c, raised) ==
    IF ~raised
    THEN LET result == ProcessQueryResult(c.query) IN
         Resolve([c EXCEPT !.timer = "cleared"],
                 [response |-> result.response,
                  suggestions |-> result.suggestions,
                  timedOut |-> FALSE, error |-> FALSE])
    ELSE Resolve([c EXCEPT !.timer = "cleared"],
                 [response |-> GenerateErrorFallbackResponse,
                  suggestions |-> "general",
                  timedOut |-> FALSE, error |-> TRUE])

\* processQueryWithTimeout(query, context, timeout) up to the point where
\* processQuery starts: timeoutMs = timeout || this.responseTimeout, the timer
\* is armed, the executor goes on to run processQuery.
Call ==
    /\ call.pc \in {"idle", "delivered"}
    /\ \E query \in QueryArgs, timeout \in TimeoutArgs :
          call' = [IdleCall EXCEPT
                      !.pc = "processing",
                      !.query = query,
                      !.timeoutMs = IF timeout = 0 THEN responseTimeout ELSE timeout,
                      !.timer = "armed"]
    /\ UNCHANGED <<uiVars, cmVars, qp, ks, caller>>

\* processQuery is running: time passes, nothing else runs.
Work ==
    /\ call.pc = "processing"
    /\ call.elapsed < MaxWork
    /\ call' = [call EXCEPT !.elapsed = @ + 1]
    /\ UNCHANGED <<uiVars, cmVars, qp, ks, caller>>

\* processQuery returns or raises (a blank query returns before anything
\* that could raise), and the executor settles the promise.
Finish ==
    /\ call.pc = "processing"
    /\ \E raised \in BOOLEAN :
          /\ raised => call.query.kind = "text"
          /\ call' = [Settle(call, raised) EXCEPT
                         !.pc = "settled",
                         !.raised = raised,
                         !.settledAt = call.elapsed]
    /\ UNCHANGED <<uiVars, cmVars, qp, ks, caller>>

\* One turn of the event loop once the executor has returned: the caller's
\* continuation (a microtask) runs first; otherwise a timer that is still
\* armed and due runs its callback.
EventLoopTurn ==
    /\ call.pc \in {"settled", "delivered"}
    /\ IF call.pc = "settled" /\ call.promise # "pending"
       THEN call' = [call EXCEPT !.pc = "delivered", !.deliveries = @ + 1]
       ELSE /\ call.timer = "armed"
            /\ call.elapsed >= call.timeoutMs
            /\ call' = TimeoutHandler(call)
    /\ UNCHANGED <<uiVars, cmVars, qp, ks, caller>>

\* Time passes while the event loop is idle.
Wait ==
    /\ call.pc \in {"settled", "delivered"}
    /\ call.elapsed < MaxWork
    /\ call' = [call EXCEPT !.elapsed = @ + 1]
    /\ UNCHANGED <<uiVars, cmVars, qp, ks, caller>>

NextTimeout == Call \/ Work \/ Finish \/ EventLoopTurn \/ Wait

(***************************************************************************)
(* 3. QueryProcessor: detectIntent, generateResponse, processQuery         *)
(*                                                                         *)
(* A JavaScript string is the sequence of its characters.                  *)
(***************************************************************************)

\* query words in one query
MaxWords == 2

UpperCase ==
    <<"A", "B", "C", "D", "E", "F", "G", "H", "I", "J", "K", "L", "M",
      "N", "O", "P", "Q", "R", "S", "T", "U", "V", "W", "X", "Y", "Z">>

LowerCase ==
    <<"a", "b", "c", "d", "e", "f", "g", "h", "i", "j", "k", "l", "m",
      "n", "o", "p", "q", "r", "s", "t", "u", "v", "w", "x", "y", "z">>

Digits == {"0", "1", "2", "3", "4", "5", "6", "7", "8", "9"}

\* \w of a regular expression: [A-Za-z0-9_]
WordChars ==
    {UpperCase[i] : i \in 1..26} \cup {LowerCase[i] : i \in 1..26}
        \cup Digits \cup {"_"}

\* \s, as far as the queries here contain it
WhiteSpace == {" "}

ToLowerChar(c) ==
    IF \E i \in 1..26 : UpperCase[i] = c
    THEN LowerCase[CHOOSE i \in 1..26 : UpperCase[i] = c]
    ELSE c

\* String.prototype.toLowerCase
ToLowerCase(text) == [i \in 1..Len(text) |-> ToLowerChar(text[i])]

RECURSIVE TrimStart(_)
TrimStart(text) ==
    IF text # <<>> /\ Head(text) \in WhiteSpace
    THEN TrimStart(Tail(text))
    ELSE text

RECURSIVE TrimEnd(_)
TrimEnd(text) ==
    IF text # <<>> /\ text[Len(text)] \in WhiteSpace
    THEN TrimEnd(SubSeq(text, 1, Len(text) - 1))
    ELSE text

\* String.prototype.trim
Trim(text) == TrimEnd(TrimStart(text))

\* String.prototype.includes
Includes(text, pattern) ==
    \E i \in 0..(Len(text) - Len(pattern)) :
        SubSeq(text, i + 1, i + Len(pattern)) = pattern

\* \b between the characters at positions k and k + 1 (k = 0: the start,
\* k = Len(text): the end): exactly one side is a word character.
WordBoundaryAt(text, k) ==
    LET before == k >= 1 /\ text[k] \in WordChars
        after == k < Len(text) /\ text[k + 1] \in WordChars
    IN  before # after

\* new RegExp(`\\b${_escapeRegex(pattern)}\\b`, 'i').test(text), for text
\* and pattern in lower case: the escaped pattern matches itself, literally.
TestWordBoundary(text, pattern) ==
    \E i \in 0..(Len(text) - Len(pattern)) :
        /\ SubSeq(text, i + 1, i + Len(pattern)) = pattern
        /\ WordBoundaryAt(text, i)
        /\ WordBoundaryAt(text, i + Len(pattern))

\* Object.entries(this.intentPatterns): the keys in insertion order
IntentOrder ==
    <<"experience", "skills", "projects", "awards", "contact",
      "certifications", "personal">>

Categories == {IntentOrder[i] : i \in 1..Len(IntentOrder)}

intentPatterns ==
    [experience |->
        [high |-> <<
            <<"e","x","p","e","r","i","e","n","c","e">>,  \* experience
            <<"c","a","r","e","e","r">>,  \* career
            <<"e","m","p","l","o","y","m","e","n","t">>,  \* employment
            <<"j","o","b"," ","h","i","s","t","o","r","y">>,  \* job history
            <<"w","o","r","k"," ","h","i","s","t","o","r","y">>,  \* work history
            <<"p","o","s","i","t","i","o","n","s"," ","h","e","l","d">>,  \* positions held
            <<"p","r","o","f","e","s","s","i","o","n","a","l"," ","b","a","c","k","g","r","o","u","n","d">>,  \* professional background
            <<"p","o","s","i","t","i","o","n","s">>,  \* positions
            <<"w","o","r","k"," ","e","x","p","e","r","i","e","n","c","e">>  \* work experience
          >>,
         medium |-> <<
            <<"w","o","r","k">>,  \* work
            <<"j","o","b">>,  \* job
            <<"w","o","r","k","e","d">>,  \* worked
            <<"w","o","r","k","i","n","g">>,  \* working
            <<"p","o","s","i","t","i","o","n">>,  \* position
            <<"r","o","l","e">>,  \* role
            <<"c","o","m","p","a","n","y">>,  \* company
            <<"a","m","a","z","o","n">>,  \* amazon
            <<"w","e","r","p">>,  \* werp
            <<"h","i","s","t","o","r","y">>,  \* history
            <<"b","a","c","k","g","r","o","u","n","d">>,  \* background
            <<"p","r","o","f","e","s","s","i","o","n","a","l">>,  \* professional
            <<"t","i","m","e","l","i","n","e">>,  \* timeline
            <<"y","e","a","r","s">>,  \* years
            <<"h","e","l","d">>,  \* held
            <<"j","o","b","s">>  \* jobs
          >>],
     skills |->
        [high |-> <<
            <<"s","k","i","l","l">>,  \* skill
            <<"s","k","i","l","l","s">>,  \* skills
            <<"t","e","c","h","n","o","l","o","g","y">>,  \* technology
            <<"t","e","c","h","n","o","l","o","g","i","e","s">>,  \* technologies
            <<"p","r","o","g","r","a","m","m","i","n","g">>,  \* programming
            <<"t","e","c","h","n","i","c","a","l"," ","a","b","i","l","i","t","i","e","s">>,  \* technical abilities
            <<"e","x","p","e","r","t","i","s","e">>  \* expertise
          >>,
         medium |-> <<
            <<"t","e","c","h">>,  \* tech
            <<"k","n","o","w">>,  \* know
            <<"l","a","n","g","u","a","g","e">>,  \* language
            <<"l","a","n","g","u","a","g","e","s">>,  \* languages
            <<"f","r","a","m","e","w","o","r","k">>,  \* framework
            <<"f","r","a","m","e","w","o","r","k","s">>,  \* frameworks
            <<"t","o","o","l">>,  \* tool
            <<"t","o","o","l","s">>,  \* tools
            <<"p","r","o","f","i","c","i","e","n","t">>,  \* proficient
            <<"c","a","p","a","b","l","e">>,  \* capable
            <<"a","b","i","l","i","t","y">>,  \* ability
            <<"a","b","i","l","i","t","i","e","s">>,  \* abilities
            <<"c","o","m","p","e","t","e","n","t">>,  \* competent
            <<"p","y","t","h","o","n">>,  \* python
            <<"j","a","v","a","s","c","r","i","p","t">>,  \* javascript
            <<"p","l","a","y","w","r","i","g","h","t">>,  \* playwright
            <<"s","e","l","e","n","i","u","m">>,  \* selenium
            <<"p","y","t","e","s","t">>,  \* pytest
            <<"a","w","s">>,  \* aws
            <<"c","l","o","u","d">>  \* cloud
          >>],
     projects |->
        [high |-> <<
            <<"p","r","o","j","e","c","t">>,  \* project
            <<"p","r","o","j","e","c","t","s">>,  \* projects
            <<"p","o","r","t","f","o","l","i","o"," ","w","o","r","k">>,  \* portfolio work
            <<"w","h","a","t"," ","h","a","v","e"," ","y","o","u"," ","b","u","i","l","t">>,  \* what have you built
            <<"w","h","a","t"," ","d","i","d"," ","y","o","u"," ","b","u","i","l","d">>,  \* what did you build
            <<"f","r","a","m","e","w","o","r","k"," ","d","e","v","e","l","o","p","m","e","n","t">>  \* framework development
          >>,
         medium |-> <<
            <<"b","u","i","l","t">>,  \* built
            <<"b","u","i","l","d">>,  \* build
            <<"c","r","e","a","t","e","d">>,  \* created
            <<"d","e","v","e","l","o","p","e","d">>,  \* developed
            <<"d","e","v","e","l","o","p","m","e","n","t">>,  \* development
            <<"s","a","v","i","n","g","s">>,  \* savings
            <<"c","o","s","t">>,  \* cost
            <<"i","m","p","a","c","t">>,  \* impact
            <<"s","o","l","u","t","i","o","n","s">>  \* solutions
          >>],
     awards |->
        [high |-> <<
            <<"a","w","a","r","d">>,  \* award
            <<"a","w","a","r","d","s">>,  \* awards
            <<"r","e","c","o","g","n","i","t","i","o","n">>,  \* recognition
            <<"r","e","c","o","g","n","i","z","e","d">>,  \* recognized
            <<"h","o","n","o","r","s">>,  \* honors
            <<"p","r","i","z","e">>,  \* prize
            <<"p","r","i","z","e","s">>,  \* prizes
            <<"a","c","c","o","m","p","l","i","s","h","m","e","n","t">>,  \* accomplishment
            <<"a","c","c","o","m","p","l","i","s","h","m","e","n","t","s">>,  \* accomplishments
            <<"a","c","c","o","l","a","d","e","s">>  \* accolades
          >>,
         medium |-> <<
            <<"a","c","h","i","e","v","e","m","e","n","t">>,  \* achievement
            <<"a","c","h","i","e","v","e","m","e","n","t","s">>,  \* achievements
            <<"h","o","n","o","r">>,  \* honor
            <<"w","o","n">>,  \* won
            <<"r","e","c","e","i","v","e","d">>,  \* received
            <<"i","n","n","o","v","a","t","i","o","n">>,  \* innovation
            <<"e","x","c","e","l","l","e","n","c","e">>,  \* excellence
            <<"l","e","a","d","e","r","s","h","i","p">>  \* leadership
          >>],
     contact |->
        [high |-> <<
            <<"c","o","n","t","a","c","t">>,  \* contact
            <<"e","m","a","i","l">>,  \* email
            <<"l","i","n","k","e","d","i","n">>,  \* linkedin
            <<"g","i","t","h","u","b">>,  \* github
            <<"r","e","a","c","h"," ","o","u","t">>,  \* reach out
            <<"g","e","t"," ","i","n"," ","t","o","u","c","h">>,  \* get in touch
            <<"h","o","w"," ","t","o"," ","r","e","a","c","h">>  \* how to reach
          >>,
         medium |-> <<
            <<"r","e","a","c","h">>,  \* reach
            <<"c","o","n","n","e","c","t">>,  \* connect
            <<"s","o","c","i","a","l">>,  \* social
            <<"m","e","s","s","a","g","e">>,  \* message
            <<"h","i","r","e">>,  \* hire
            <<"h","i","r","i","n","g">>,  \* hiring
            <<"l","o","c","a","t","i","o","n">>,  \* location
            <<"w","h","e","r","e">>,  \* where
            <<"b","a","s","e","d">>,  \* based
            <<"l","i","v","e">>,  \* live
            <<"l","o","c","a","t","e","d">>,  \* located
            <<"f","i","n","d">>,  \* find
            <<"t","o","u","c","h">>  \* touch
          >>],
     certifications |->
        [high |-> <<
            <<"c","e","r","t","i","f","i","c","a","t","i","o","n">>,  \* certification
            <<"c","e","r","t","i","f","i","c","a","t","i","o","n","s">>,  \* certifications
            <<"c","e","r","t","i","f","i","e","d">>,  \* certified
            <<"c","e","r","t","i","f","i","c","a","t","e">>,  \* certificate
            <<"c","e","r","t","i","f","i","c","a","t","e","s">>,  \* certificates
            <<"q","u","a","l","i","f","i","c","a","t","i","o","n","s">>,  \* qualifications
            <<"c","r","e","d","e","n","t","i","a","l","s">>,  \* credentials
            <<"c","r","e","d","e","n","t","i","a","l">>  \* credential
          >>,
         medium |-> <<
            <<"c","o","u","r","s","e">>,  \* course
            <<"c","o","u","r","s","e","s">>,  \* courses
            <<"t","r","a","i","n","i","n","g">>,  \* training
            <<"l","e","a","r","n">>,  \* learn
            <<"l","e","a","r","n","e","d">>,  \* learned
            <<"e","d","u","c","a","t","i","o","n">>,  \* education
            <<"q","u","a","l","i","f","i","c","a","t","i","o","n">>  \* qualification
          >>],
     personal |->
        [high |-> <<
            <<"w","h","o"," ","a","r","e"," ","y","o","u">>,  \* who are you
            <<"a","b","o","u","t"," ","y","o","u","r","s","e","l","f">>,  \* about yourself
            <<"i","n","t","r","o","d","u","c","e"," ","y","o","u","r","s","e","l","f">>,  \* introduce yourself
            <<"i","n","t","r","o","d","u","c","t","i","o","n">>,  \* introduction
            <<"d","i","n","a","k","a","r","a","n">>  \* dinakaran
          >>,
         medium |-> <<
            <<"w","h","o">>,  \* who
            <<"y","o","u","r","s","e","l","f">>,  \* yourself
            <<"i","n","t","r","o","d","u","c","e">>,  \* introduce
            <<"n","a","m","e">>,  \* name
            <<"s","u","m","m","a","r","y">>,  \* summary
            <<"o","v","e","r","v","i","e","w">>,  \* overview
            <<"d","e","s","c","r","i","b","e"," ","y","o","u","r","s","e","l","f">>  \* describe yourself
          >>]]

RECURSIVE Sum(_)
Sum(numbers) ==
    IF numbers = <<>> THEN 0 ELSE Head(numbers) + Sum(Tail(numbers))

HighScoreWordFirst(normalizedQuery, pattern) ==
    IF TestWordBoundary(normalizedQuery, pattern) THEN 4
    ELSE IF Includes(normalizedQuery, pattern) THEN 5
    ELSE 0

\* a high pattern: 5 on a phrase match, else 4 on a word boundary match
HighScore(normalizedQuery, pattern) ==
    IF Includes(normalizedQuery, pattern) THEN 5
    ELSE IF TestWordBoundary(normalizedQuery, pattern) THEN 4
    ELSE 0

\* a medium pattern: 2 on a word boundary match, else 1 on a partial match
MediumScore(normalizedQuery, pattern) ==
    IF TestWordBoundary(normalizedQuery, pattern) THEN 2
    ELSE IF Includes(normalizedQuery, pattern) THEN 1
    ELSE 0

\* scores[intent] after the first loop of detectIntent
IntentScore(normalizedQuery, intent) ==
    LET high == intentPatterns[intent].high
        medium == intentPatterns[intent].medium
    IN  Sum([i \in 1..Len(high) |-> HighScore(normalizedQuery, high[i])])
        + Sum([i \in 1..Len(medium) |-> MediumScore(normalizedQuery, medium[i])])

Scores(normalizedQuery) ==
    [intent \in Categories |-> IntentScore(normalizedQuery, intent)]

RECURSIVE FindHighestLastWins(_, _, _, _)
FindHighestLastWins(scores, i, maxScore, detectedIntent) ==
    IF i > Len(IntentOrder)
    THEN [maxScore |-> maxScore, detectedIntent |-> detectedIntent]
    ELSE IF scores[IntentOrder[i]] >= maxScore
    THEN FindHighestLastWins(scores, i + 1, scores[IntentOrder[i]], IntentOrder[i])
    ELSE FindHighestLastWins(scores, i + 1, maxScore, detectedIntent)

\* the second loop of detectIntent, from the i-th entry on:
\* if (score > maxScore) { maxScore = score; detectedIntent = intent; }
RECURSIVE FindHighest(_, _, _, _)
FindHighest(scores, i, maxScore, detectedIntent) ==
    IF i > Len(IntentOrder)
    THEN [maxScore |-> maxScore, detectedIntent |-> detectedIntent]
    ELSE IF scores[IntentOrder[i]] > maxScore
    THEN FindHighest(scores, i + 1, scores[IntentOrder[i]], IntentOrder[i])
    ELSE FindHighest(scores, i + 1, maxScore, detectedIntent)

DetectIntentNoThreshold(query) ==
    IF query.type # "string" \/ query.text = <<>>
    THEN "general"
    ELSE LET normalizedQuery == Trim(ToLowerCase(query.text))
         IN  FindHighest(Scores(normalizedQuery), 1, 0, "general").detectedIntent

\* detectIntent(query); a query is [type, text], text being the characters
\* of a string and <<>> for any other type.
DetectIntent(query) ==
    IF query.type # "string" \/ query.text = <<>>
    THEN "general"
    ELSE LET normalizedQuery == Trim(ToLowerCase(query.text))
             highest == FindHighest(Scores(normalizedQuery), 1, 0, "general")
         IN  IF highest.maxScore < 2 THEN "general" ELSE highest.detectedIntent

(***************************************************************************)
(* Knowledge-base values.  A JavaScript value is [type, label, items,      *)
(* technologies]: label is the text of a string and stands for the scalar  *)
(* fields of an object (title, name, company, ...); items are the elements *)
(* of an array; technologies tells what an object's list field holds.      *)
(***************************************************************************)
Undefined ==
    [type |-> "undefined", label |-> "", items |-> <<>>, technologies |-> "absent"]

Null ==
    [type |-> "null", label |-> "", items |-> <<>>, technologies |-> "absent"]

Str(text) ==
    [type |-> "string", label |-> text, items |-> <<>>, technologies |-> "absent"]

Arr(items) ==
    [type |-> "array", label |-> "", items |-> items, technologies |-> "absent"]

Obj(label, technologies) ==
    [type |-> "object", label |-> label, items |-> <<>>, technologies |-> technologies]

\* !value
Falsy(value) ==
    \/ value.type \in {"undefined", "null"}
    \/ value.type = "string" /\ value.label = ""

\* What one category of the knowledge base may hold: nothing, null, a
\* string, an empty array, arrays of entries (well formed, with a null
\* element, with a string where the technologies array belongs), an object.
DataShapes ==
    { Undefined, Null, Str(""), Str("text"),
      Arr(<<>>),
      Arr(<<Obj("A", "array")>>),
      Arr(<<Obj("B", "absent")>>),
      Arr(<<Obj("A", "array"), Null>>),
      Arr(<<Obj("A", "string")>>),
      Obj("A", "absent"),
      Obj("B", "absent") }

\* Knowledge bases: one category holds one shape, the others another.
KnowledgeBases ==
    { [c \in Categories |-> IF c = target THEN own ELSE other] :
          target \in Categories, own \in DataShapes, other \in DataShapes }

\* The portfolio data: arrays of entries and plain objects.
knowledgeBase ==
    [c \in Categories |->
        IF c \in {"experience", "projects", "awards", "certifications"}
        THEN Arr(<<Obj("A", "array"), Obj("B", "absent")>>)
        ELSE Obj("A", "absent")]

\* KnowledgeBase.getByCategory for a lower-case category name: this.data[name]
\* when the key exists, else null.
GetByCategory(kb, category) ==
    IF category \in DOMAIN kb THEN kb[category] ELSE Null

\* Math.floor(Math.random() * fallbackResponses.length)
RandomIndexes == {0, 1, 2}

\* _generateFallbackResponse: fallbackResponses[index]
GenerateFallbackResponse(index) == <<"fallback", index>>

fallbackResponses == {GenerateFallbackResponse(index) : index \in RandomIndexes}

Returned(response) == [threw |-> FALSE, response |-> response]

\* a TypeError leaves the function
Thrown == [threw |-> TRUE, response |-> <<"TypeError">>]

\* the fields a formatter prints of one array element; a property of a
\* string or an array element reads as undefined
RenderEntry(entry) ==
    IF entry.type = "object"
    THEN <<entry.label, entry.technologies>>
    ELSE <<"undefined", "absent">>

\* The array formatters: a safe sentence unless data is a non-empty array;
\* then each element's properties are read (a TypeError on null and
\* undefined) and, in two of them, technologies.join is called (a TypeError
\* on a string).
FormatEntries(intent, data, joinsTechnologies) ==
    IF data.type # "array" \/ Len(data.items) = 0
    THEN Returned(<<"safe", intent>>)
    ELSE IF \E i \in 1..Len(data.items) :
                data.items[i].type \in {"null", "undefined"}
    THEN Thrown
    ELSE IF /\ joinsTechnologies
            /\ \E i \in 1..Len(data.items) :
                  /\ data.items[i].type = "object"
                  /\ data.items[i].technologies = "string"
    THEN Thrown
    ELSE Returned(<<"entries", intent,
                    [i \in 1..Len(data.items) |-> RenderEntry(data.items[i])]>>)

\* The object formatters: a safe sentence unless typeof data is 'object';
\* then the fields that are present are printed.
FormatFields(intent, data) ==
    IF data.type \notin {"object", "array"}
    THEN Returned(<<"safe", intent>>)
    ELSE Returned(<<"fields", intent,
                    IF data.type = "object" THEN data.label ELSE "undefined">>)

FormatExperienceResponse(data) == FormatEntries("experience", data, TRUE)
FormatSkillsResponse(data) == FormatFields("skills", data)
FormatProjectsResponse(data) == FormatEntries("projects", data, TRUE)
FormatAwardsResponse(data) == FormatEntries("awards", data, FALSE)
FormatContactResponse(data) == FormatFields("contact", data)
FormatCertificationsResponse(data) == FormatEntries("certifications", data, FALSE)
FormatPersonalResponse(data) == FormatFields("personal", data)

CategoryMapSwapped(intent) ==
    IF intent = "awards" THEN "certifications"
    ELSE IF intent = "certifications" THEN "awards"
    ELSE intent

\* categoryMap[intent]; the keys are the seven categories
CategoryMap(intent) == intent

\* generateResponse(intent, keywords, context); no formatter reads keywords
\* or context.  index is what the random draw of a fallback gives.
GenerateResponse(kb, intent, index) ==
    IF intent = "general"
    THEN Returned(GenerateFallbackResponse(index))
    ELSE IF intent \notin Categories
    THEN Returned(GenerateFallbackResponse(index))
    ELSE LET data == GetByCategory(kb, CategoryMap(intent)) IN
         IF Falsy(data)
         THEN Returned(GenerateFallbackResponse(index))
         ELSE CASE intent = "experience" -> FormatExperienceResponse(data)
                [] intent = "skills" -> FormatSkillsResponse(data)
                [] intent = "projects" -> FormatProjectsResponse(data)
                [] intent = "awards" -> FormatAwardsResponse(data)
                [] intent = "contact" -> FormatContactResponse(data)
                [] intent = "certifications" -> FormatCertificationsResponse(data)
                [] intent = "personal" -> FormatPersonalResponse(data)

\* processQuery(query, conversationContext); extractKeywords is computed and
\* handed to generateResponse, which does not read it.
ProcessQuery(kb, query, index) ==
    IF query.type # "string" \/ query.text = <<>> \/ Trim(query.text) = <<>>
    THEN [threw |-> FALSE, intent |-> "none",
          response |-> <<"didntCatch">>, suggestions |-> "general"]
    ELSE LET normalizedQuery == ToLowerCase(Trim(query.text))
             intent == DetectIntent([type |-> "string", text |-> normalizedQuery])
             generated == GenerateResponse(kb, intent, index)
         IN  [threw |-> generated.threw, intent |-> intent,
              response |-> generated.response,
              suggestions |-> IF generated.threw THEN "none"
                              ELSE GetSuggestions(intent)]


Vocabulary ==
    { <<"c", "a", "r", "e", "e", "r">>,
      <<"a", "w", "a", "r", "d">>,
      <<"r", "o", "l", "e">>,
      <<"w", "o", "n">>,
      <<"n", "e", "t", "w", "o", "r", "k", "s">>,
      <<"x", "y", "z">>,
      <<"T", "o", "o", "l", "s">>,
      <<"w", "h", "o", "?">> }

\* empty and whitespace-only strings
BlankTexts == {<<>>, <<" ">>, <<" ", " ">>}

\* one to n words, with one space between them
RECURSIVE Phrases(_)
Phrases(n) ==
    IF n = 1 THEN Vocabulary
    ELSE LET shorter == Phrases(n - 1) IN
         shorter \cup {p \o <<" ">> \o w : p \in shorter, w \in Vocabulary}

\* The query argument: blank strings, phrases, single words between spaces,
\* and null for the values that are not strings.
QueryInputs ==
    {[type |-> "string", text |-> t] : t \in BlankTexts \cup Phrases(MaxWords)}
        \cup {[type |-> "string", text |-> <<" ">> \o t \o <<" ">>] : t \in Vocabulary}
        \cup {[type |-> "null", text |-> <<>>]}

NoQuery == [type |-> "null", text |-> <<>>]

\* no call made yet
IdleQP == [op |-> "none"]

\* the record of a call, before its fields are filled in
BlankQP ==
    [op |-> "none", query |-> NoQuery, kb |-> knowledgeBase, index |-> 0,
     intent |-> "none", threw |-> FALSE, response |-> <<"none">>,
     suggestions |-> "none"]

\* The calls below keep no state in the QueryProcessor, so one call in a
\* behaviour stands for every call.
DetectIntentCall ==
    /\ qp.op = "none"
    /\ \E query \in QueryInputs :
          qp' = [BlankQP EXCEPT !.op = "detectIntent", !.query = query,
                               !.intent = DetectIntent(query)]
    /\ UNCHANGED <<uiVars, cmVars, call, ks, caller>>

ProcessQueryCall ==
    /\ qp.op = "none"
    /\ \E query \in QueryInputs, index \in RandomIndexes :
          LET r == ProcessQuery(knowledgeBase, query, index) IN
          qp' = [BlankQP EXCEPT !.op = "processQuery", !.query = query,
                               !.index = index, !.intent = r.intent,
                               !.threw = r.threw, !.response = r.response,
                               !.suggestions = r.suggestions]
    /\ UNCHANGED <<uiVars, cmVars, call, ks, caller>>

GenerateResponseCall ==
    /\ qp.op = "none"
    /\ \E kb \in KnowledgeBases, intent \in Intents \cup {"unknown"},
          index \in RandomIndexes :
          LET r == GenerateResponse(kb, intent, index) IN
          qp' = [BlankQP EXCEPT !.op = "generateResponse", !.kb = kb,
                               !.index = index, !.intent = intent,
                               !.threw = r.threw, !.response = r.response]
    /\ UNCHANGED <<uiVars, cmVars, call, ks, caller>>

\* generateResponse(intent, keywords, context): the context is handed to the
\* formatter chosen by the switch, and no formatter reads it.
GenerateResponseWithContext(kb, intent, context, index) ==
    GenerateResponse(kb, intent, index)

\* processQuery(query, conversationContext): the validation and the intent
\* come from the query alone; the context goes to generateResponse.
ProcessQueryWithContext(kb, query, conversationContext, index) ==
    IF query.type # "string" \/ query.text = <<>> \/ Trim(query.text) = <<>>
    THEN [threw |-> FALSE, intent |-> "none",
          response |-> <<"didntCatch">>, suggestions |-> "general"]
    ELSE LET normalizedQuery == ToLowerCase(Trim(query.text))
             intent == DetectIntent([type |-> "string", text |-> normalizedQuery])
             generated == GenerateResponseWithContext(kb, intent, conversationContext, index)
         IN  [threw |-> generated.threw, intent |-> intent,
              response |-> generated.response,
              suggestions |-> IF generated.threw THEN "none"
                              ELSE GetSuggestions(intent)]

\* the questions asked after the first one: about a category, about nothing
\* the patterns know, and a blank one
FollowUpQueries ==
    {[type |-> "string", text |-> t] :
        t \in {<<"c", "a", "r", "e", "e", "r">>, <<"a", "w", "a", "r", "d">>,
               <<"x", "y", "z">>, <<" ">>}}

NextQuery == DetectIntentCall \/ ProcessQueryCall

NextRespond == GenerateResponseCall

(***************************************************************************)
(* 4. KnowledgeBase: _calculateRelevance, query, search                    *)
(*                                                                         *)
(* A value of the knowledge base is [type, text, values, nested]: text is  *)
(* the content of a string; values are the scalar fields of an object, in  *)
(* key order, as strings; nested are the elements of an array, or of the   *)
(* array field an object has when hasNested.                               *)
(***************************************************************************)

\* keywords in one call
MaxKeywords == 2

\* static HIGH_CONFIDENCE_THRESHOLD = 0.85, in hundredths
HIGH_CONFIDENCE_THRESHOLD == 85

NullItem ==
    [type |-> "null", text |-> <<>>, values |-> <<>>, nested |-> <<>>,
     hasNested |-> FALSE]

TextItem(text) ==
    [type |-> "string", text |-> text, values |-> <<>>, nested |-> <<>>,
     hasNested |-> FALSE]

RecordItem(values) ==
    [type |-> "object", text |-> <<>>, values |-> values, nested |-> <<>>,
     hasNested |-> FALSE]

RecordWithList(values, items) ==
    [type |-> "object", text |-> <<>>, values |-> values, nested |-> items,
     hasNested |-> TRUE]

ListItem(items) ==
    [type |-> "array", text |-> <<>>, values |-> <<>>, nested |-> items,
     hasNested |-> FALSE]

\* Array.prototype.join(' ')
RECURSIVE JoinTexts(_)
JoinTexts(parts) ==
    IF parts = <<>> THEN <<>>
    ELSE IF Len(parts) = 1 THEN parts[1]
    ELSE parts[1] \o <<" ">> \o JoinTexts(Tail(parts))

\* _itemToSearchText
RECURSIVE ItemToSearchText(_)
ItemToSearchText(item) ==
    CASE item.type = "string" -> item.text
      [] item.type = "array" ->
            JoinTexts([i \in 1..Len(item.nested) |-> ItemToSearchText(item.nested[i])])
      [] item.type = "object" ->
            JoinTexts(item.values \o
                (IF item.hasNested
                 THEN <<JoinTexts([i \in 1..Len(item.nested) |->
                                      ItemToSearchText(item.nested[i])])>>
                 ELSE <<>>))
      [] OTHER -> <<>>

\* A relevance is the fraction halves / (2 * weight): matchCount counts in
\* halves, and the division is exact on operands this small.
ZeroRelevance == [halves |-> 0, weight |-> 1]

FullRelevance == [halves |-> 2, weight |-> 1]

\* a.relevance >= b.relevance
RelevanceGeq(a, b) == a.halves * b.weight >= b.halves * a.weight

\* relevance > 0
Positive(relevance) == relevance.halves > 0

\* relevance >= this.highConfidenceThreshold (the default one)
HighConfidence(relevance) ==
    100 * relevance.halves >= HIGH_CONFIDENCE_THRESHOLD * 2 * relevance.weight

KeywordHalvesSwapped(searchText, keyword) ==
    IF TestWordBoundary(searchText, ToLowerCase(keyword)) THEN 1
    ELSE IF Includes(searchText, keyword) THEN 2
    ELSE 0

\* matchCount += 1 on a word match (the RegExp has the i flag), else += 0.5
\* when the text includes the keyword as it is written
KeywordHalves(searchText, keyword) ==
    IF TestWordBoundary(searchText, ToLowerCase(keyword)) THEN 2
    ELSE IF Includes(searchText, keyword) THEN 1
    ELSE 0

CalculateRelevanceShortScored(item, keywords) ==
    IF item.type = "null" \/ (item.type = "string" /\ item.text = <<>>)
       \/ Len(keywords) = 0
    THEN ZeroRelevance
    ELSE LET searchText == ToLowerCase(ItemToSearchText(item))
             counted == SelectSeq(keywords, LAMBDA k : Len(k) >= 2)
         IN  IF searchText = <<>> \/ Len(counted) = 0
             THEN ZeroRelevance
             ELSE [halves |-> Sum([i \in 1..Len(keywords) |->
                                      KeywordHalves(searchText, keywords[i])]),
                   weight |-> Len(counted)]

\* _calculateRelevance(item, keywords)
CalculateRelevance(item, keywords) ==
    IF item.type = "null" \/ (item.type = "string" /\ item.text = <<>>)
       \/ Len(keywords) = 0
    THEN ZeroRelevance
    ELSE LET searchText == ToLowerCase(ItemToSearchText(item))
             counted == SelectSeq(keywords, LAMBDA k : Len(k) >= 2)
         IN  IF searchText = <<>> \/ Len(counted) = 0
             THEN ZeroRelevance
             ELSE [halves |-> Sum([i \in 1..Len(counted) |->
                                      KeywordHalves(searchText, counted[i])]),
                   weight |-> Len(counted)]

\* _normalizeKeywords of an array of strings: lower case, trimmed, the empty
\* ones dropped; null gives no keywords
NormalizeKeywords(keywords) ==
    IF keywords.type # "array" THEN <<>>
    ELSE SelectSeq([i \in 1..Len(keywords.items) |->
                       Trim(ToLowerCase(keywords.items[i]))],
                   LAMBDA k : Len(k) > 0)

\* What _searchInData and _searchInDataOptimized visit, in order: the elements
\* of an array; or an object itself, then the elements of its array field.
Candidates(data, category) ==
    CASE data.type = "array" ->
            [i \in 1..Len(data.nested) |->
                [data |-> data.nested[i], category |-> category, field |-> "none"]]
      [] data.type = "object" ->
            <<[data |-> data, category |-> category, field |-> "none"]>>
            \o [i \in 1..Len(data.nested) |->
                   [data |-> data.nested[i], category |-> category, field |-> "list"]]
      [] OTHER -> <<>>

SearchResult(candidate, relevance) ==
    [data |-> candidate.data, relevance |-> relevance,
     category |-> candidate.category, field |-> candidate.field]

RECURSIVE ScanAnyMatchStops(_, _, _, _, _)
ScanAnyMatchStops(candidates, keywords, enableEarlyTermination, i, results) ==
    IF i > Len(candidates) THEN results
    ELSE LET relevance == CalculateRelevance(candidates[i].data, keywords) IN
         IF Positive(relevance)
         THEN LET found == Append(results, SearchResult(candidates[i], relevance)) IN
              IF enableEarlyTermination
              THEN found
              ELSE ScanAnyMatchStops(candidates, keywords, enableEarlyTermination, i + 1, found)
         ELSE ScanAnyMatchStops(candidates, keywords, enableEarlyTermination, i + 1, results)

\* The loops of _searchInDataOptimized from the i-th candidate on: a match is
\* pushed, and a high-confidence match ends the scan when early termination
\* is enabled.
RECURSIVE Scan(_, _, _, _, _)
Scan(candidates, keywords, enableEarlyTermination, i, results) ==
    IF i > Len(candidates) THEN results
    ELSE LET relevance == CalculateRelevance(candidates[i].data, keywords) IN
         IF Positive(relevance)
         THEN LET found == Append(results, SearchResult(candidates[i], relevance)) IN
              IF enableEarlyTermination /\ HighConfidence(relevance)
              THEN found
              ELSE Scan(candidates, keywords, enableEarlyTermination, i + 1, found)
         ELSE Scan(candidates, keywords, enableEarlyTermination, i + 1, results)

\* _searchInDataOptimized(data, keywords, category, enableEarlyTermination)
SearchInDataOptimized(data, keywords, category, enableEarlyTermination) ==
    Scan(Candidates(data, category), keywords, enableEarlyTermination, 1, <<>>)

\* _searchInData(data, keywords, category): the same loops without the early
\* return
SearchInData(data, keywords, category) ==
    Scan(Candidates(data, category), keywords, FALSE, 1, <<>>)

\* _wrapWithRelevance(data, relevance)
WrapWithRelevance(data, relevance) ==
    IF data.type = "array"
    THEN [i \in 1..Len(data.nested) |->
             [data |-> data.nested[i], relevance |-> relevance,
              category |-> "none", field |-> "none"]]
    ELSE <<[data |-> data, relevance |-> relevance,
            category |-> "none", field |-> "none"]>>

\* where a stable sort by descending relevance puts one more result
InsertByRelevance(sorted, result) ==
    LET k == Cardinality({i \in 1..Len(sorted) :
                             RelevanceGeq(sorted[i].relevance, result.relevance)})
    IN  SubSeq(sorted, 1, k) \o <<result>> \o SubSeq(sorted, k + 1, Len(sorted))

\* results.sort((a, b) => b.relevance - a.relevance); the sort is stable
RECURSIVE SortByRelevance(_)
SortByRelevance(results) ==
    IF results = <<>> THEN <<>>
    ELSE InsertByRelevance(SortByRelevance(SubSeq(results, 1, Len(results) - 1)),
                           results[Len(results)])

RECURSIVE SearchCategoriesEarlyUnsorted(_, _, _, _, _)
SearchCategoriesEarlyUnsorted(kb, keywordArray, enableEarlyTermination, i, results) ==
    IF i > Len(kb.categories) THEN SortByRelevance(results)
    ELSE LET category == kb.categories[i]
             categoryResults ==
                 SearchInDataOptimized(kb.data[category], keywordArray, category,
                                       enableEarlyTermination)
             found == results \o categoryResults
         IN  IF /\ enableEarlyTermination
                /\ \E j \in 1..Len(categoryResults) :
                      HighConfidence(categoryResults[j].relevance)
             THEN found
             ELSE SearchCategoriesEarlyUnsorted(kb, keywordArray, enableEarlyTermination,
                                                i + 1, found)

\* The loop of search over this.categories from the i-th on, and the sort
\* before each return.
RECURSIVE SearchCategories(_, _, _, _, _)
SearchCategories(kb, keywordArray, enableEarlyTermination, i, results) ==
    IF i > Len(kb.categories) THEN SortByRelevance(results)
    ELSE LET category == kb.categories[i]
             categoryResults ==
                 SearchInDataOptimized(kb.data[category], keywordArray, category,
                                       enableEarlyTermination)
             found == results \o categoryResults
         IN  IF /\ enableEarlyTermination
                /\ \E j \in 1..Len(categoryResults) :
                      HighConfidence(categoryResults[j].relevance)
             THEN SortByRelevance(found)
             ELSE SearchCategories(kb, keywordArray, enableEarlyTermination,
                                   i + 1, found)

\* search(keywords, options); enableEarlyTermination is
\* options.earlyTermination !== false
Search(kb, keywords, enableEarlyTermination) ==
    LET keywordArray == NormalizeKeywords(keywords) IN
    IF Len(keywordArray) = 0 THEN <<>>
    ELSE SearchCategories(kb, keywordArray, enableEarlyTermination, 1, <<>>)

\* query(category, keywords)
Query(kb, category, keywords) ==
    LET categoryData == GetByCategory(kb.data, category) IN
    IF categoryData.type = "null" THEN <<>>
    ELSE LET keywordArray == NormalizeKeywords(keywords) IN
         IF Len(keywordArray) = 0
         THEN WrapWithRelevance(categoryData, FullRelevance)
         ELSE SearchInData(categoryData, keywordArray, "none")

\* Entries and categories of the knowledge bases searched.
PythonTesting == RecordItem(<<<<"p", "y", "t", "h", "o", "n">>, <<"t", "e", "s", "t", "i", "n", "g">>>>)

PytestTool == RecordItem(<<<<"p", "y", "t", "e", "s", "t">>, <<"t", "e", "s", "t", " ", "t", "o", "o", "l">>>>)

SkillsRecord == RecordWithList(<<<<"q", "a">>>>, <<TextItem(<<"p", "y", "t", "h", "o", "n">>), TextItem(<<"p", "y", "t", "e", "s", "t">>)>>)

SearchItems ==
    {PythonTesting, PytestTool, SkillsRecord, TextItem(<<"p", "y", "t", "h", "o", "n">>), NullItem}

SearchKBs ==
    { [categories |-> <<"experience", "skills">>,
       data |-> [c \in {"experience", "skills"} |->
                    IF c = "experience"
                    THEN ListItem(<<PythonTesting, PytestTool>>)
                    ELSE SkillsRecord]],
      [categories |-> <<"skills", "awards", "experience">>,
       data |-> [c \in {"skills", "awards", "experience"} |->
                    IF c = "experience"
                    THEN ListItem(<<PytestTool, NullItem, PythonTesting>>)
                    ELSE IF c = "skills" THEN SkillsRecord
                    ELSE NullItem]] }

KeywordVocabulary ==
    {<<"t", "e", "s", "t">>, <<"p", "y", "t", "h", "o", "n">>, <<"p", "y">>, <<"T", "o", "o", "l">>, <<"q">>, <<" ">>}

\* arrays of up to n strings
RECURSIVE KeywordArrays(_)
KeywordArrays(n) ==
    IF n = 0 THEN {<<>>}
    ELSE LET shorter == KeywordArrays(n - 1) IN
         shorter \cup {Append(a, k) : a \in shorter, k \in KeywordVocabulary}

\* The keywords argument: an array of strings, or null.
KeywordArgs ==
    {[type |-> "array", items |-> a] : a \in KeywordArrays(MaxKeywords)}
        \cup {[type |-> "null", items |-> <<>>]}

\* no call made yet
IdleKS == [op |-> "none"]

\* the record of a call, before its fields are filled in
BlankKS ==
    [op |-> "none", kb |-> "none", category |-> "none", item |-> NullItem,
     keywords |-> <<>>, earlyTermination |-> TRUE, results |-> <<>>,
     relevance |-> ZeroRelevance]

\* The calls below leave the KnowledgeBase as it is, so one call in a
\* behaviour stands for every call.
CalculateRelevanceCall ==
    /\ ks.op = "none"
    /\ \E item \in SearchItems, keywords \in KeywordArrays(MaxKeywords) :
          ks' = [BlankKS EXCEPT !.op = "calculateRelevance", !.item = item,
                               !.keywords = keywords,
                               !.relevance = CalculateRelevance(item, keywords)]
    /\ UNCHANGED <<uiVars, cmVars, call, qp, caller>>

QueryCall ==
    /\ ks.op = "none"
    /\ \E kb \in SearchKBs, category \in {"experience", "skills", "awards", "hobbies"},
          keywords \in KeywordArgs :
          ks' = [BlankKS EXCEPT !.op = "query", !.kb = kb, !.category = category,
                               !.keywords = keywords,
                               !.results = Query(kb, category, keywords)]
    /\ UNCHANGED <<uiVars, cmVars, call, qp, caller>>

SearchCall ==
    /\ ks.op = "none"
    /\ \E kb \in SearchKBs, keywords \in KeywordArgs, earlyTermination \in BOOLEAN :
          ks' = [BlankKS EXCEPT !.op = "search", !.kb = kb, !.keywords = keywords,
                               !.earlyTermination = earlyTermination,
                               !.results = Search(kb, keywords, earlyTermination)]
    /\ UNCHANGED <<uiVars, cmVars, call, qp, caller>>

NextSearch == CalculateRelevanceCall \/ QueryCall \/ SearchCall

(***************************************************************************)
(* 5. ConversationManager.getHistory and getContext, and their callers     *)
(*                                                                         *)
(* A message object is known by its id: two references to the message     *)
(* with one id are references to one object (ids are unique, and these     *)
(* behaviours restore nothing).  The caller holds the returned array: its  *)
(* elements are the message objects, seen as they are now.                 *)
(***************************************************************************)

\* addMessage calls in one conversation read by getContext
MaxHistory == 6

\* what the caller writes into a field of a message
Changed == "changed"

\* The messageCount argument: a number (an integer, or NaN), a string, null,
\* or undefined (absent), for which the default parameter value 5 stands.
GetContextArgs ==
    {[type |-> "number", n |-> n] : n \in -2..(MaxHistory + 1)}
        \cup {[type |-> t, n |-> 0] : t \in {"NaN", "string", "null", "undefined"}}

\* nothing returned yet
IdleCaller == [op |-> "none"]

\* Array.prototype.slice(startIndex)
Slice(array, startIndex) ==
    [i \in 1..(Len(array) - startIndex) |-> array[startIndex + i]]

\* getHistory(): [...this.messages], a new array of the same objects
GetHistoryResult(st) == [array |-> st.messages, sameArray |-> FALSE]

GetContextResultUnvalidated(st, arg) ==
    LET messageCount == IF arg.type = "undefined" THEN 5
                        ELSE IF arg.type \notin {"number", "NaN"} THEN 5
                        ELSE arg.n
        difference == Len(st.messages) - messageCount
        startIndex == IF arg.type = "NaN" THEN 0
                      ELSE IF difference > 0 THEN difference ELSE 0
    IN  [messages |-> st.messages,
         array |-> IF startIndex >= Len(st.messages) THEN <<>>
                   ELSE Slice(st.messages, startIndex),
         sameArray |-> FALSE]

\* getContext(messageCount = 5).  typeof NaN is 'number' and NaN < 0 is
\* false, so NaN passes the validation; Math.max(0, NaN) is NaN and
\* slice(NaN) is slice(0).
GetContextResult(st, arg) ==
    LET messageCount == IF arg.type = "undefined" THEN 5
                        ELSE IF arg.type \notin {"number", "NaN"} \/ arg.n < 0 THEN 5
                        ELSE arg.n
        difference == Len(st.messages) - messageCount
        startIndex == IF arg.type = "NaN" THEN 0
                      ELSE IF difference > 0 THEN difference ELSE 0
    IN  [messages |-> st.messages,
         array |-> Slice(st.messages, startIndex),
         sameArray |-> FALSE]

\* addMessage as the page wiring calls it (a string from the user or the
\* bot), with the clock standing still.
AddChatMessage ==
    /\ Len(added) < MaxHistory
    /\ \E sender \in validSenders :
          LET r == AddMessageResult(State, [type |-> "string", text |-> "hi"],
                                    sender, NoTimestamp, 1, 1)
          IN  /\ messages' = r.messages
              /\ messageIdCounter' = r.messageIdCounter
              /\ added' = Append(added, r.messageObject)
              /\ last' = [op |-> "addMessage", ret |-> "message",
                          arg |-> "none", type |-> "string", sender |-> sender]
    /\ UNCHANGED <<uiVars, maxMessages, storage, call, qp, ks, caller>>

GetHistory ==
    /\ LET r == GetHistoryResult(State) IN
       caller' = [op |-> "getHistory", arg |-> [type |-> "undefined", n |-> 0],
                  held |-> r.array, sameArray |-> r.sameArray]
    /\ last' = [op |-> "getHistory", ret |-> "array", arg |-> "none",
                type |-> "none", sender |-> "none"]
    /\ UNCHANGED <<uiVars, messages, messageIdCounter, maxMessages, added, storage,
                   call, qp, ks>>

GetContext ==
    /\ \E arg \in GetContextArgs :
          LET r == GetContextResult(State, arg) IN
          /\ messages' = r.messages
          /\ caller' = [op |-> "getContext", arg |-> arg, held |-> r.array,
                        sameArray |-> r.sameArray]
    /\ last' = [op |-> "getContext", ret |-> "array", arg |-> "none",
                type |-> "none", sender |-> "none"]
    /\ UNCHANGED <<uiVars, messageIdCounter, maxMessages, added, storage, call, qp, ks>>

\* The caller changes the array it was given: history.pop(),
\* history.reverse() or history.push(...).  The manager's array is another
\* array, unless the call returned this.messages itself.
CallerMutatesArray ==
    /\ caller.op = "getHistory"
    /\ \E kind \in {"pop", "reverse", "push"} :
          LET held ==
                  CASE kind = "pop" ->
                          SubSeq(caller.held, 1, Len(caller.held) - 1)
                    [] kind = "reverse" ->
                          [i \in 1..Len(caller.held) |->
                              caller.held[Len(caller.held) + 1 - i]]
                    [] kind = "push" ->
                          Append(caller.held,
                                 [id |-> <<"other", 0, 0>>, content |-> Changed,
                                  sender |-> "user", timestamp |-> 0])
          IN  /\ caller' = [caller EXCEPT !.op = "mutateArray", !.held = held]
              /\ messages' = IF caller.sameArray THEN held ELSE messages
    /\ UNCHANGED <<uiVars, messageIdCounter, maxMessages, added, storage, last,
                   call, qp, ks>>

\* The caller assigns to a field of a message of the array it was given:
\* history[i].content = ...  Every reference to that object shows it.
CallerWritesField ==
    /\ caller.op \in {"getHistory", "mutateArray"}
    /\ \E i \in 1..Len(caller.held) :
          LET id == caller.held[i].id
              Written(array) ==
                  [j \in 1..Len(array) |->
                      IF array[j].id = id
                      THEN [array[j] EXCEPT !.content = Changed]
                      ELSE array[j]]
          IN  /\ caller' = [caller EXCEPT !.op = "writeField",
                                          !.held = Written(caller.held)]
              /\ messages' = Written(messages)
    /\ UNCHANGED <<uiVars, messageIdCounter, maxMessages, added, storage, last,
                   call, qp, ks>>

\* A question asked in a conversation, as the page wiring passes it on:
\* context = getContext(5); processQuery(message, context).
FollowUp ==
    /\ qp.op = "none"
    /\ \E query \in FollowUpQueries, index \in RandomIndexes :
          LET context == GetContextResult(State, [type |-> "number", n |-> 5]).array
              r == ProcessQueryWithContext(knowledgeBase, query, context, index)
          IN  /\ caller' = [op |-> "getContext", arg |-> [type |-> "number", n |-> 5],
                            held |-> context, sameArray |-> FALSE]
              /\ qp' = [BlankQP EXCEPT !.op = "processQuery", !.query = query,
                                       !.index = index, !.intent = r.intent,
                                       !.threw = r.threw, !.response = r.response,
                                       !.suggestions = r.suggestions]
    /\ UNCHANGED <<uiVars, cmVars, call, ks>>

\* a conversation and one question asked in it
NextFollowUp == AddChatMessage \/ FollowUp

\* addMessage calls, getHistory calls and what the caller does with the result
NextHistory == AddMessage \/ GetHistory \/ CallerMutatesArray \/ CallerWritesField

\* addMessage and getContext calls
NextContext == AddChatMessage \/ GetContext

(***************************************************************************)
(* 6. ChatWidget                                                           *)
(*                                                                         *)
(* Time is counted in units of 100 ms.  The widget reads the clock only to  *)
(* take differences (from _debounceState.lastSubmitTime, from               *)
(* _touchState.startTime) and compare them with a threshold: the state      *)
(* holds each difference, counted up to its threshold.  A timer is the time *)
(* left until it is due; it runs when that is 0, or later.                  *)
(***************************************************************************)

\* callbacks of one kind (error removal timers, pending submit callbacks)
\* outstanding at one time
MaxScheduled == 2

\* static DEFAULT_DEBOUNCE_DELAY = 300
DEFAULT_DEBOUNCE_DELAY == 3

\* _touchState.swipeTimeThreshold: 300
swipeTimeThreshold == 3

\* setTimeout(..., 300) in open()
FocusDelay == 3

\* setTimeout(..., 100) after a synchronous callback
ProcessingDoneDelay == 1

\* no ChatWidget constructed yet
NoWidget == [pc |-> "none"]

\* what the page sets as onMessageSubmit: a function returning a promise, a
\* function returning at once, a function that throws, or nothing
CallbackKinds == {"async", "sync", "throws", "none"}

\* inputField.value: empty, whitespace only, a message, or a text of more
\* than MAX_QUERY_LENGTH characters
InputValues == {"", "blank", "valid", "long"}

\* what a handler did, kept for the last event handled
NoEvent ==
    [type |-> "none", target |-> "none", tap |-> FALSE, swipe |-> FALSE,
     valid |-> FALSE, rapid |-> FALSE, invoked |-> FALSE]

Event(type, target) == [NoEvent EXCEPT !.type = type, !.target = target]

\* new ChatWidget(config) followed by render(): isOpen false, lastSubmitTime
\* and startTime 0 (long ago), no timers.  sinceValid is a history variable:
\* the time since the last submission of a valid message, acted on or not.
RenderedWidget(callback) ==
    [pc |-> "rendered",
     onMessageSubmit |-> callback,
     isOpen |-> FALSE,
     inputValue |-> "",
     timerId |-> -1,
     timerMessage |-> "",
     sinceLastSubmit |-> DEFAULT_DEBOUNCE_DELAY,
     isProcessing |-> FALSE,
     touching |-> "none",
     touchTime |-> swipeTimeThreshold,
     isSwiping |-> FALSE,
     wasAtTop |-> FALSE,
     focusTimers |-> {},
     doneTimers |-> {},
     errorTimers |-> 0,
     pending |-> 0,
     sinceValid |-> DEFAULT_DEBOUNCE_DELAY,
     raised |-> FALSE,
     event |-> Event("render", "none")]

\* static validateQuery(query)
ValidateQuery(query) == query \notin {"", "blank", "long"}

\* A property read on this.elements.X when destroy() has set every element
\* reference to null: TypeError.
ElementsCleared(w) == w.pc = "destroyed"

\* _displayErrorMessage: insertBefore on elements.messagesContainer, then a
\* timer that removes the error element after 5 seconds.
DisplayErrorMessage(w) ==
    IF ElementsCleared(w)
    THEN [w EXCEPT !.raised = TRUE]
    ELSE [w EXCEPT !.errorTimers = @ + 1]

\* open()
Open(w) ==
    IF w.isOpen THEN w
    ELSE IF ElementsCleared(w)
    THEN [w EXCEPT !.isOpen = TRUE, !.raised = TRUE]
    ELSE [w EXCEPT !.isOpen = TRUE,
                   !.focusTimers = @ \cup {FocusDelay}]

CloseKeepsOpen(w) == w

\* close()
Close(w) ==
    IF ~w.isOpen THEN w
    ELSE IF ElementsCleared(w)
    THEN [w EXCEPT !.isOpen = FALSE, !.raised = TRUE]
    ELSE [w EXCEPT !.isOpen = FALSE]

\* _handleFloatingButtonClick
HandleFloatingButtonClick(w) == IF w.isOpen THEN Close(w) ELSE Open(w)

\* _handleCloseButtonClick
HandleCloseButtonClick(w) == Close(w)

\* _submitMessage: validation; the debounce check; the timer cleared, the
\* debounce state updated and the input emptied; the callback called, and
\* isProcessing cleared when its promise settles (async), 100 ms later
\* (sync), at once after the error message (throws), or at once (none).
SubmitMessage(w) ==
    IF ~ValidateQuery(w.inputValue)
    THEN DisplayErrorMessage(w)
    ELSE IF w.sinceLastSubmit < DEFAULT_DEBOUNCE_DELAY /\ w.isProcessing
    THEN [w EXCEPT !.event.valid = TRUE,
                   !.event.rapid = w.sinceValid < DEFAULT_DEBOUNCE_DELAY,
                   !.sinceValid = 0]
    ELSE [w EXCEPT !.event.valid = TRUE,
                   !.event.rapid = w.sinceValid < DEFAULT_DEBOUNCE_DELAY,
                   !.event.invoked = w.onMessageSubmit # "none",
                   !.sinceValid = 0,
                   !.timerId = -1,
                   !.sinceLastSubmit = 0,
                   !.isProcessing = w.onMessageSubmit \in {"async", "sync"},
                   !.inputValue = "",
                   !.pending = IF w.onMessageSubmit = "async" THEN @ + 1 ELSE @,
                   !.doneTimers = IF w.onMessageSubmit = "sync"
                                  THEN @ \cup {ProcessingDoneDelay} ELSE @,
                   !.errorTimers = IF w.onMessageSubmit = "throws" THEN @ + 1 ELSE @]

\* the bound on outstanding callbacks lets this handler run
MaySubmit(w) ==
    /\ w.errorTimers < MaxScheduled
    /\ w.pending < MaxScheduled

\* new ChatWidget(CHATBOT_CONFIG), the callbacks set, render(document.body)
RenderWidget ==
    /\ widget.pc = "none"
    /\ \E callback \in CallbackKinds :
          widget' = RenderedWidget(callback)
    /\ UNCHANGED <<cmVars, call, qp, ks, caller, page, loader>>

Elapse(time, threshold) == IF time < threshold THEN time + 1 ELSE time

CountDown(timers) == {IF t > 0 THEN t - 1 ELSE 0 : t \in timers}

\* 100 ms pass: every difference from a recorded time grows, every timer
\* comes nearer.
Tick ==
    /\ widget.pc \in {"rendered", "destroyed"}
    /\ widget' = [widget EXCEPT
                     !.sinceLastSubmit = Elapse(@, DEFAULT_DEBOUNCE_DELAY),
                     !.sinceValid = Elapse(@, DEFAULT_DEBOUNCE_DELAY),
                     !.touchTime = Elapse(@, swipeTimeThreshold),
                     !.timerId = IF @ > 0 THEN @ - 1 ELSE @,
                     !.focusTimers = CountDown(@),
                     !.doneTimers = CountDown(@),
                     !.event = Event("tick", "none")]
    /\ widget' # widget
    /\ UNCHANGED <<cmVars, call, qp, ks, caller, page, loader>>

\* The user types into the input field, or a suggestion button writes its
\* text there.
TypeInput ==
    /\ widget.pc = "rendered"
    /\ \E value \in InputValues \ {widget.inputValue} :
          widget' = [widget EXCEPT !.inputValue = value,
                                   !.event = Event("input", "inputField")]
    /\ UNCHANGED <<cmVars, call, qp, ks, caller, page, loader>>

\* the elements whose click listener the widget attaches
ClickTargets == {"floatingButton", "closeButton", "sendButton"}

\* A click event, from a mouse or made by the browser after a touch that no
\* handler prevented.
Click ==
    /\ widget.pc = "rendered"
    /\ \E target \in ClickTargets :
          /\ target = "sendButton" => MaySubmit(widget)
          /\ LET w == [widget EXCEPT !.event = Event("click", target)] IN
             widget' = CASE target = "floatingButton" -> HandleFloatingButtonClick(w)
                         [] target = "closeButton" -> HandleCloseButtonClick(w)
                         [] target = "sendButton" -> SubmitMessage(w)
    /\ UNCHANGED <<cmVars, call, qp, ks, caller, page, loader>>

\* _handleInputKeypress with Enter and no Shift
Keypress ==
    /\ widget.pc = "rendered"
    /\ MaySubmit(widget)
    /\ widget' = SubmitMessage([widget EXCEPT !.event = Event("keypress", "inputField")])
    /\ UNCHANGED <<cmVars, call, qp, ks, caller, page, loader>>

\* the elements with touch listeners; a touch on the close button reaches
\* the listeners of the header around it as well
TouchTargets ==
    {"floatingButton", "closeButton", "sendButton", "header", "messagesContainer"}

\* _handleTouchStart / _handleMessagesTouchStart with one finger:
\* startTime = Date.now(), isSwiping = false, and on the message list
\* scrollTop is recorded.
TouchStart ==
    /\ widget.pc = "rendered"
    /\ widget.touching = "none"
    /\ \E target \in TouchTargets, atTop \in BOOLEAN :
          /\ ~atTop => target = "messagesContainer"
          /\ widget' = [widget EXCEPT
                           !.touching = target,
                           !.touchTime = 0,
                           !.isSwiping = FALSE,
                           !.wasAtTop = IF target = "messagesContainer"
                                        THEN atTop ELSE @,
                           !.event = Event("touchstart", target)]
    /\ UNCHANGED <<cmVars, call, qp, ks, caller, page, loader>>

\* _handleTouchMove (header, and the close button inside it) /
\* _handleMessagesTouchMove: moved tells whether the finger is further than
\* tapThreshold from where it started.
TouchMove ==
    /\ widget.pc = "rendered"
    /\ widget.touching \in {"header", "closeButton", "messagesContainer"}
    /\ \E moved \in BOOLEAN :
          widget' = [widget EXCEPT
                        !.isSwiping = @ \/ moved,
                        !.event = Event("touchmove", widget.touching)]
    /\ UNCHANGED <<cmVars, call, qp, ks, caller, page, loader>>

\* _handleTouchEnd on currentTarget: a quick touch that did not move is a
\* tap and runs the click handler of the button; a swipe down the header
\* further than swipeThreshold closes an open widget.
HandleTouchEnd(w, target, far) ==
    LET tap == ~w.isSwiping /\ w.touchTime < swipeTimeThreshold
        tapped ==
            IF ~tap THEN w
            ELSE CASE target = "floatingButton" ->
                         HandleFloatingButtonClick([w EXCEPT !.event.tap = TRUE])
                   [] target = "closeButton" ->
                         HandleCloseButtonClick([w EXCEPT !.event.tap = TRUE])
                   [] target = "sendButton" ->
                         SubmitMessage([w EXCEPT !.event.tap = TRUE])
                   [] OTHER -> w
        swiped ==
            IF target = "header" /\ w.isSwiping /\ far /\ tapped.isOpen
            THEN Close([tapped EXCEPT !.event.swipe = TRUE])
            ELSE tapped
    IN  [swiped EXCEPT !.isSwiping = FALSE]

\* _handleMessagesTouchEnd: a swipe down from the top of the message list,
\* further than twice swipeThreshold, closes an open widget.
HandleMessagesTouchEnd(w, far) ==
    LET swiped ==
            IF w.isSwiping /\ w.isOpen /\ w.wasAtTop /\ far
            THEN Close([w EXCEPT !.event.swipe = TRUE])
            ELSE w
    IN  [swiped EXCEPT !.isSwiping = FALSE]

\* The finger is lifted; far tells whether it went down further than the
\* threshold of the handler.
TouchEnd ==
    /\ widget.pc = "rendered"
    /\ widget.touching # "none"
    /\ widget.touching = "sendButton" => MaySubmit(widget)
    /\ \E far \in BOOLEAN :
          LET target == widget.touching
              w == [widget EXCEPT !.touching = "none",
                                  !.event = Event("touchend", target)]
          IN  widget' = IF target = "messagesContainer"
                        THEN HandleMessagesTouchEnd(w, far)
                        ELSE HandleTouchEnd(w, target, far)
    /\ UNCHANGED <<cmVars, call, qp, ks, caller, page, loader>>

\* chatWidget.open(), as the page calls it when the saved widget state says
\* open
OpenCall ==
    /\ widget.pc = "rendered"
    /\ widget' = Open([widget EXCEPT !.event = Event("open", "none")])
    /\ UNCHANGED <<cmVars, call, qp, ks, caller, page, loader>>

\* chatWidget.close(), the public method
CloseCall ==
    /\ widget.pc = "rendered"
    /\ widget' = Close([widget EXCEPT !.event = Event("close", "none")])
    /\ UNCHANGED <<cmVars, call, qp, ks, caller, page, loader>>

\* submitMessageDebounced(message, delay): the pending timer is cleared and a
\* new one started; delay 0 stands for the default.
SubmitMessageDebounced ==
    /\ widget.pc = "rendered"
    /\ \E message \in {"valid", "blank"}, delay \in {0, 1} :
          widget' = [widget EXCEPT
                        !.timerId = IF delay = 0 THEN DEFAULT_DEBOUNCE_DELAY ELSE delay,
                        !.timerMessage = message,
                        !.event = Event("submitMessageDebounced", "none")]
    /\ UNCHANGED <<cmVars, call, qp, ks, caller, page, loader>>

\* The timer of submitMessageDebounced runs: the message is written into the
\* input field, _submitMessage runs, timerId = null.
DebounceTimer ==
    /\ widget.pc \in {"rendered", "destroyed"}
    /\ widget.timerId = 0
    /\ MaySubmit(widget)
    /\ LET w == [widget EXCEPT !.event = Event("timer", "debounce")] IN
       widget' = IF ElementsCleared(w)
                 THEN [w EXCEPT !.raised = TRUE, !.timerId = -1]
                 ELSE [SubmitMessage([w EXCEPT !.inputValue = w.timerMessage])
                          EXCEPT !.timerId = -1]
    /\ UNCHANGED <<cmVars, call, qp, ks, caller, page, loader>>

\* The timer started by open() runs: this.elements.inputField.focus();
\* this.scrollToBottom().
FocusTimer ==
    /\ widget.pc \in {"rendered", "destroyed"}
    /\ 0 \in widget.focusTimers
    /\ widget' = [widget EXCEPT
                     !.focusTimers = @ \ {0},
                     !.raised = @ \/ ElementsCleared(widget),
                     !.event = Event("timer", "focus")]
    /\ UNCHANGED <<cmVars, call, qp, ks, caller, page, loader>>

\* The timer started after a synchronous callback runs:
\* self._debounceState.isProcessing = false.
ProcessingDoneTimer ==
    /\ widget.pc \in {"rendered", "destroyed"}
    /\ 0 \in widget.doneTimers
    /\ widget' = [widget EXCEPT
                     !.doneTimers = @ \ {0},
                     !.isProcessing = FALSE,
                     !.event = Event("timer", "processingDone")]
    /\ UNCHANGED <<cmVars, call, qp, ks, caller, page, loader>>

\* The timer of an error message runs, 5 seconds or more after the message
\* was shown: the element, which the callback holds itself, is removed if it
\* is still attached.
ErrorRemovalTimer ==
    /\ widget.pc \in {"rendered", "destroyed"}
    /\ widget.errorTimers > 0
    /\ widget' = [widget EXCEPT
                     !.errorTimers = @ - 1,
                     !.event = Event("timer", "errorRemoval")]
    /\ UNCHANGED <<cmVars, call, qp, ks, caller, page, loader>>

\* The promise an asynchronous callback returned settles: on rejection the
\* catch handler shows the error message; the finally handler clears
\* isProcessing.
CallbackSettles ==
    /\ widget.pc \in {"rendered", "destroyed"}
    /\ widget.pending > 0
    /\ \E rejected \in BOOLEAN :
          /\ rejected => widget.errorTimers < MaxScheduled
          /\ LET w == [widget EXCEPT !.pending = @ - 1,
                                     !.event = Event("settled", "none")]
                 caught == IF rejected THEN DisplayErrorMessage(w) ELSE w
             IN  widget' = [caught EXCEPT !.isProcessing = FALSE]
    /\ UNCHANGED <<cmVars, call, qp, ks, caller, page, loader>>

\* destroy(): the debounced submission cancelled, the listeners removed, the
\* widget taken out of the document, every element reference set to null,
\* state, _debounceState and _touchState set to their first values.  The
\* timers of open(), of error messages and of synchronous callbacks, and the
\* handlers on pending promises, stay.
DestroyResult(w) ==
    [w EXCEPT !.pc = "destroyed",
              !.timerId = -1,
              !.isOpen = FALSE,
              !.inputValue = "",
              !.sinceLastSubmit = DEFAULT_DEBOUNCE_DELAY,
              !.isProcessing = FALSE,
              !.touching = "none",
              !.touchTime = swipeTimeThreshold,
              !.isSwiping = FALSE,
              !.event = Event("destroy", "none")]

Destroy ==
    /\ widget.pc \in {"rendered", "destroyed"}
    /\ widget' = DestroyResult(widget)
    /\ widget' # widget
    /\ UNCHANGED <<cmVars, call, qp, ks, caller, page, loader>>

\* clicks, touches and calls of open() and close() on a widget whose input field
\* stays empty
NextWidget ==
    \/ RenderWidget \/ Tick \/ Click \/ TouchStart \/ TouchMove \/ TouchEnd
    \/ OpenCall \/ CloseCall \/ FocusTimer \/ ErrorRemovalTimer \/ Destroy

\* typing and submitting, at once or debounced, on a widget that stays
\* rendered
NextSubmit ==
    \/ RenderWidget \/ Tick \/ TypeInput \/ Keypress
    \/ SubmitMessageDebounced \/ DebounceTimer
    \/ ProcessingDoneTimer \/ ErrorRemovalTimer \/ CallbackSettles

\* a widget that is opened, used and destroyed, and the callbacks scheduled
\* before destroy() that run after it
NextDestroy ==
    \/ RenderWidget \/ Tick \/ TypeInput \/ Keypress \/ OpenCall
    \/ SubmitMessageDebounced \/ DebounceTimer \/ FocusTimer
    \/ ProcessingDoneTimer \/ ErrorRemovalTimer \/ CallbackSettles \/ Destroy

(***************************************************************************)
(* 7. The page wiring: initializeChatbot                                   *)
(***************************************************************************)

\* initializeChatbot has not run yet
NoPage == [pc |-> "none"]

\* user submissions in one run
MaxExchanges == 2

\* page loads in one run
MaxLoads == 2

\* the messages the widget hands to onMessageSubmit: trimmed, valid texts,
\* named by the intent detectIntent finds in them
PageQueries == {[kind |-> "text", intent |-> i] : i \in {"skills", "contact"}}

\* In the handlers below the two Date.now() reads of one addMessage fall in
\* the same millisecond (now).

\* the text of a query, as a message content
QueryText(query) == [type |-> "string", text |-> <<"query", query.intent>>]

\* getGreeting().content
GetGreeting == [type |-> "string", text |-> <<"greeting">>]

\* hasMessages()
HasMessages(st) == Len(st.messages) > 0

\* the manager after a successful addMessage
Added(st, r) ==
    [st EXCEPT !.messages = r.messages, !.messageIdCounter = r.messageIdCounter]

\* saveConversationToStorage with a store that accepts the write
SaveConversationToStorage(st) ==
    [saved |-> TRUE, text |-> SerializeResult(st),
     snapMessages |-> st.messages, snapCounter |-> st.messageIdCounter]

\* what a handler leaves behind: the manager, the store and the messages
\* addMessage returned
Outcome(st, sto, log) == [st |-> st, storage |-> sto, log |-> log]

OnOpenNoSave(st, sto, now1, now2) ==
    IF HasMessages(st) THEN Outcome(st, sto, <<>>)
    ELSE LET r == AddMessageResult(st, GetGreeting, "bot", NoTimestamp, now1, now2)
         IN  Outcome(Added(st, r), sto, <<r.messageObject>>)

\* chatWidget.onOpen: on a conversation without messages the greeting is
\* added and the conversation saved
OnOpen(st, sto, now1, now2) ==
    IF HasMessages(st) THEN Outcome(st, sto, <<>>)
    ELSE LET r == AddMessageResult(st, GetGreeting, "bot", NoTimestamp, now1, now2)
             greeted == Added(st, r)
         IN  Outcome(greeted, SaveConversationToStorage(greeted), <<r.messageObject>>)

\* restoreConversationFromStorage on a new ConversationManager()
RestoreConversationFromStorage(sto) ==
    LET fresh == [messages |-> <<>>, messageIdCounter |-> 0,
                  maxMessages |-> ConstructMaxMessages(0)]
    IN  IF sto.saved
        THEN LET r == RestoreResult(fresh, sto.text) IN
             [fresh EXCEPT !.messages = r.messages,
                           !.messageIdCounter = r.messageIdCounter]
        ELSE fresh

\* The promise processQueryWithTimeout returns is settled when it is
\* returned (processQuery has run inside the executor), so the rest of the
\* handler after `await` is a microtask: it runs when the task that
\* submitted ends, before any other event handler, timer or page load.
MayRunTaskWhileAwaiting(p) == p.pc \in {"idle", "awaiting"}

MayRunTask(p) == p.pc = "idle"

\* the value the promise of processQueryWithTimeout(message, context) is
\* resolved with
AwaitedResult(query, context, raised) ==
    Settle([IdleCall EXCEPT !.query = query], raised).value

PageRecord(op) ==
    [op |-> op, ret |-> "undefined", arg |-> "none", type |-> "none",
     sender |-> "none"]

\* A page load: initializeChatbot.  A new manager restores the stored
\* conversation; the widget is rendered; if the stored widget state says
\* open, open() runs and with it onOpen.  left is a history variable: the
\* manager's state when the previous page was left.
InitializeChatbot ==
    /\ page.pc = "none" \/ (MayRunTask(page) /\ page.loads < MaxLoads)
    /\ \E now \in Clock :
          LET restored == RestoreConversationFromStorage(storage)
              opens == page.pc # "none" /\ page.widgetState = "open"
              o == IF opens THEN OnOpen(restored, storage, now, now)
                   ELSE Outcome(restored, storage, <<>>)
          IN  /\ messages' = o.st.messages
              /\ messageIdCounter' = o.st.messageIdCounter
              /\ maxMessages' = o.st.maxMessages
              /\ storage' = o.storage
              /\ added' = added \o o.log
              /\ page' = [pc |-> "idle",
                          queue |-> <<>>,
                          isOpen |-> opens,
                          widgetState |-> IF page.pc = "none" THEN "none"
                                          ELSE page.widgetState,
                          exchanges |-> IF page.pc = "none" THEN 0
                                        ELSE page.exchanges,
                          loads |-> IF page.pc = "none" THEN 1
                                    ELSE page.loads + 1,
                          left |-> State]
    /\ last' = PageRecord("initializeChatbot")
    /\ UNCHANGED <<call, qp, ks, caller, widget, loader>>

\* The floating button opens the widget: open() saves the widget state and
\* runs onOpen.
OpenWidget ==
    /\ MayRunTask(page)
    /\ ~page.isOpen
    /\ \E now \in Clock :
          LET o == OnOpen(State, storage, now, now) IN
          /\ messages' = o.st.messages
          /\ messageIdCounter' = o.st.messageIdCounter
          /\ storage' = o.storage
          /\ added' = added \o o.log
    /\ page' = [page EXCEPT !.isOpen = TRUE, !.widgetState = "open"]
    /\ last' = PageRecord("onOpen")
    /\ UNCHANGED <<maxMessages, call, qp, ks, caller, widget, loader>>

\* The widget is closed: onClose saves the widget state.
CloseWidget ==
    /\ MayRunTask(page)
    /\ page.isOpen
    /\ page' = [page EXCEPT !.isOpen = FALSE, !.widgetState = "closed"]
    /\ last' = PageRecord("onClose")
    /\ UNCHANGED <<messages, messageIdCounter, maxMessages, added, storage,
                   call, qp, ks, caller, widget, loader>>

\* onMessageSubmit up to its await: the user message is added, the context
\* taken, processQueryWithTimeout called; the handler waits for the promise.
OnMessageSubmit ==
    /\ page.pc # "none"
    /\ MayRunTask(page)
    /\ page.exchanges < MaxExchanges
    /\ \E query \in PageQueries, raised \in BOOLEAN,
          now \in Clock :
          LET r == AddMessageResult(State, QueryText(query), "user",
                                    NoTimestamp, now, now)
              context == GetContextResult(Added(State, r),
                                          [type |-> "number", n |-> 5]).array
              result == AwaitedResult(query, context, raised)
          IN  /\ messages' = r.messages
              /\ messageIdCounter' = r.messageIdCounter
              /\ added' = Append(added, r.messageObject)
              /\ page' = [page EXCEPT !.pc = "awaiting",
                                      !.queue = Append(@, result),
                                      !.exchanges = @ + 1]
    /\ last' = PageRecord("onMessageSubmit")
    /\ UNCHANGED <<maxMessages, storage, call, qp, ks, caller, widget, loader>>

\* onMessageSubmit after its await: the bot reply is added and the
\* conversation saved.
OnMessageSubmitResumes ==
    /\ page.pc = "awaiting"
    /\ \E now \in Clock :
          LET result == Head(page.queue)
              r == AddMessageResult(State,
                                    [type |-> "string", text |-> result.response],
                                    "bot", NoTimestamp, now, now)
          IN  /\ messages' = r.messages
              /\ messageIdCounter' = r.messageIdCounter
              /\ added' = Append(added, r.messageObject)
              /\ storage' = SaveConversationToStorage(Added(State, r))
    /\ page' = [page EXCEPT !.queue = Tail(@),
                            !.pc = IF Len(page.queue) = 1 THEN "idle"
                                   ELSE "awaiting"]
    /\ last' = PageRecord("onMessageSubmit")
    /\ UNCHANGED <<maxMessages, call, qp, ks, caller, widget, loader>>

\* page loads and the three handlers the page sets on the widget
NextPage ==
    \/ InitializeChatbot \/ OpenWidget \/ CloseWidget
    \/ OnMessageSubmit \/ OnMessageSubmitResumes

(***************************************************************************)
(* 8. ChatbotLoader.lazyLoad                                               *)
(***************************************************************************)

\* the ChatbotLoader object as the module defines it, before any call
NoLoader == [pc |-> "none"]

\* lazyLoad calls in one page
MaxCalls == 3

\* The object literal: _initialized false, _chatbotInstance null; the
\* document is still loading or already parsed when the module runs.
\* promises are the promises lazyLoad returned, in call order; listeners and
\* scheduled hold the positions of the promises whose `initialize` waits for
\* DOMContentLoaded, or whose init callback waits in requestIdleCallback /
\* setTimeout.  An instance is known by the run of initCallback that made it.
DefineLoader ==
    /\ loader.pc = "none"
    /\ \E readyState \in {"loading", "interactive"} :
          loader' = [pc |-> "defined", initialized |-> FALSE, chatbotInstance |-> 0,
                     readyState |-> readyState, promises |-> <<>>,
                     listeners |-> {}, scheduled |-> {}, initRuns |-> 0]
    /\ UNCHANGED <<cmVars, call, qp, ks, caller, widget, page>>

Pending == [state |-> "pending", value |-> 0]

\* lazyLoad(initCallback): the executor runs inside the call
LazyLoadResult(l) ==
    LET p == Len(l.promises) + 1 IN
    IF l.initialized
    THEN [l EXCEPT !.promises = Append(@, [state |-> "fulfilled",
                                           value |-> l.chatbotInstance])]
    ELSE IF l.readyState = "loading"
    THEN [l EXCEPT !.promises = Append(@, Pending), !.listeners = @ \cup {p}]
    ELSE [l EXCEPT !.promises = Append(@, Pending), !.scheduled = @ \cup {p}]

LazyLoad ==
    /\ loader.pc = "defined"
    /\ Len(loader.promises) < MaxCalls
    /\ loader' = LazyLoadResult(loader)
    /\ UNCHANGED <<cmVars, call, qp, ks, caller, widget, page>>

\* DOMContentLoaded: every `initialize` registered with { once: true } runs
\* and schedules its init callback.
DOMContentLoaded ==
    /\ loader.pc = "defined"
    /\ loader.readyState = "loading"
    /\ loader' = [loader EXCEPT !.readyState = "interactive",
                                !.scheduled = @ \cup loader.listeners,
                                !.listeners = {}]
    /\ UNCHANGED <<cmVars, call, qp, ks, caller, widget, page>>

\* The callback given to scheduleInit by the p-th call: initCallback() returns
\* a new instance, or throws and the promise is rejected.
ScheduledInitResult(l, p, throws) ==
    IF throws
    THEN [l EXCEPT !.scheduled = @ \ {p},
                   !.initRuns = @ + 1,
                   !.promises[p] = [state |-> "rejected", value |-> 0]]
    ELSE LET instance == l.initRuns + 1 IN
         [l EXCEPT !.scheduled = @ \ {p},
                   !.initRuns = instance,
                   !.chatbotInstance = instance,
                   !.initialized = TRUE,
                   !.promises[p] = [state |-> "fulfilled", value |-> instance]]

ScheduledInit ==
    /\ loader.pc = "defined"
    /\ \E p \in loader.scheduled, throws \in BOOLEAN :
          loader' = ScheduledInitResult(loader, p, throws)
    /\ UNCHANGED <<cmVars, call, qp, ks, caller, widget, page>>

NextLoader == DefineLoader \/ LazyLoad \/ DOMContentLoaded \/ ScheduledInit

Init ==
    /\ messages = <<>>
    /\ messageIdCounter = 0
    /\ maxMessages \in {ConstructMaxMessages(opt) : opt \in CapOptions}
    /\ added = <<>>
    /\ storage = [saved |-> FALSE, text |-> EmptyObject,
                  snapMessages |-> <<>>, snapCounter |-> 0]
    /\ last = [op |-> "constructor", ret |-> "undefined", arg |-> "none", type |-> "none", sender |-> "none"]
    /\ call = IdleCall
    /\ qp = IdleQP
    /\ ks = IdleKS
    /\ caller = IdleCaller
    /\ widget = NoWidget
    /\ page = NoPage
    /\ loader = NoLoader

Next == AddMessage \/ Clear \/ Serialize \/ Restore \/ NewManager

Spec == Init /\ [][Next]_vars

\* addMessage calls only
NextAdd == AddMessage

SpecAdd == Init /\ [][NextAdd]_vars

\* addMessage and clear calls only
NextAddClear == AddMessage \/ Clear

SpecAddClear == Init /\ [][NextAddClear]_vars

\* addMessage and restore calls only: restore of blobs that serialize() did
\* not write (nothing is stored)
NextAddRestore == AddMessage \/ Restore

SpecAddRestore == Init /\ [][NextAddRestore]_vars

SpecFollowUp == Init /\ [][NextFollowUp]_vars

\* one manager: addMessage, serialize, and restore of what serialize wrote
NextSnapshot == AddMessage \/ Serialize \/ RestoreStored

SpecSnapshot == Init /\ [][NextSnapshot]_vars

\* managers with caps of their own over one store: addMessage, serialize,
\* page loads, and restore of what serialize wrote
NextCap == AddUserMessage \/ Serialize \/ RestoreStored \/ NewManagerWithCap

SpecCap == Init /\ [][NextCap]_vars

\* lazyLoad calls and the callbacks they schedule
SpecLoader == Init /\ [][NextLoader]_vars

\* one widget, from render() on
SpecWidget == Init /\ [][NextWidget]_vars

SpecSubmit == Init /\ [][NextSubmit]_vars

SpecDestroy == Init /\ [][NextDestroy]_vars

\* the wired chatbot over page loads
SpecPage == Init /\ [][NextPage]_vars

\* processQueryWithTimeout calls only
SpecTimeout == Init /\ [][NextTimeout]_vars

\* one detectIntent or processQuery call over the portfolio data
SpecQuery == Init /\ [][NextQuery]_vars

\* one generateResponse call over any of the knowledge bases
SpecRespond == Init /\ [][NextRespond]_vars

\* one _calculateRelevance, query or search call
SpecSearch == Init /\ [][NextSearch]_vars

SpecHistory == Init /\ [][NextHistory]_vars

SpecContext == Init /\ [][NextContext]_vars

(***************************************************************************)
(* Properties                                                              *)
(***************************************************************************)

Min(a, b) == IF a < b THEN a ELSE b

\* The last n elements of s, in order.
LastN(s, n) ==
    LET k == Min(Len(s), n) IN [i \in 1..k |-> s[Len(s) - k + i]]

C2_IdsUnique ==
    /\ \A i, j \in 1..Len(added) : i # j => added[i].id # added[j].id
    /\ last.op = "clear" => messageIdCounter = Len(added)

\* C2 witness: two messages added at the same clock value with a clear()
\* between them (the first is gone though the cap was not reached).
C2_Witness ==
    /\ Len(added) = 2
    /\ Len(messages) = 1
    /\ maxMessages > 1
    /\ added[1].id[2] = added[2].id[2]

\* C3: restore() of the blob serialize() produced returns true and yields the
\* serialized state: the same messages in the same order, each with its id,
\* content, sender and timestamp, and the same messageIdCounter; whether the
\* manager is the one serialized, changed since or not, or a fresh one.
C3_RoundTrip ==
    (last.op = "restore" /\ last.arg = "stored")
        => /\ last.ret = "true"
           /\ messages = storage.snapMessages
           /\ messageIdCounter = storage.snapCounter

\* C3 witness: a two-message conversation restored from its blob.
C3_Witness ==
    /\ last.op = "restore"
    /\ last.arg = "stored"
    /\ Len(messages) = 2
    /\ messages[1].sender # messages[2].sender
    /\ messageIdCounter = 2

\* C4: a restore() that does not succeed returns false (it does not throw)
\* and leaves the history and the id counter as they were before the call.
C4_RestoreFailureKeepsState ==
    [][(last'.op = "restore" /\ last'.ret # "true")
          => /\ last'.ret = "false"
             /\ messages' = messages
             /\ messageIdCounter' = messageIdCounter]_vars

\* C4 witness: restore() has failed on a manager that holds messages.
C4_Witness ==
    /\ last.op = "restore"
    /\ last.ret = "false"
    /\ last.arg = "null"
    /\ Len(messages) > 0

\* C5 (as claimed): whenever restore() returns true, the blob held both an
\* array of messages and a numeric counter, and both replaced the state.
C5_RestoreTrueReplacesAll ==
    (last.op = "restore" /\ last.ret = "true")
        => /\ DataOf(last.arg).hasMessages
           /\ DataOf(last.arg).hasCounter
           /\ messages = JSONParseMessages(DataOf(last.arg).messages)
           /\ messageIdCounter = DataOf(last.arg).messageIdCounter

\* C6: addMessage throws when the content is null or undefined or the sender
\* is neither "user" nor "bot", and a call that throws leaves the history and
\* the id counter unchanged and returns no message.
C6_RejectedAddKeepsState ==
    [][last'.op = "addMessage"
          => /\ (last'.type \in {"null", "undefined"}
                   \/ last'.sender \notin {"user", "bot"})
                 => last'.ret = "throw"
             /\ last'.ret = "throw"
                 => /\ messages' = messages
                    /\ messageIdCounter' = messageIdCounter
                    /\ added' = added]_vars

\* C6 witness: a call with a bad sender was rejected on a non-empty history.
C6_Witness ==
    /\ last.op = "addMessage"
    /\ last.ret = "throw"
    /\ last.sender = "admin"
    /\ last.type = "string"
    /\ Len(messages) > 0

\* C7 (as claimed): every call is settled no later than its timeout after it
\* was made, however long processQuery runs (the scheduling overhead is less
\* than one time unit).
C7_ResolvesWithinTimeout ==
    call.pc \in {"settled", "delivered"} => call.settledAt <= call.timeoutMs

\* C8 (as claimed): a call whose processing outlasts the timeout resolves with
\* the quick response of the detected intent and timedOut: true; a call whose
\* processing returns before the timeout resolves with processQuery's result
\* and timedOut: false.
C8_RaceWinnerReported ==
    call.pc \in {"settled", "delivered"}
        => /\ call.settledAt > call.timeoutMs
                => /\ call.value.timedOut
                   /\ call.value.response = GenerateTimeoutFallbackResponse(call.query)
           /\ (call.settledAt < call.timeoutMs /\ ~call.raised)
                => /\ ~call.value.timedOut
                   /\ call.value.response = ProcessQueryResult(call.query).response
                   /\ call.value.suggestions = ProcessQueryResult(call.query).suggestions

\* C9: a call delivers exactly one result: once the executor has settled the
\* promise, resolve has been called once, the timer is cancelled (so its
\* callback never runs), and the caller's continuation runs once.
C9_ExactlyOneResult ==
    /\ call.resolveCalls <= 1
    /\ call.deliveries <= 1
    /\ call.pc \in {"settled", "delivered"}
          => /\ call.resolveCalls = 1
             /\ call.timer = "cleared"
    /\ call.pc = "delivered" => call.deliveries = 1

\* C9 witness: processing outlasted the timeout, the result was delivered and
\* more time has passed since, with the timer cancelled.
C9_Witness ==
    /\ call.pc = "delivered"
    /\ call.settledAt > call.timeoutMs
    /\ call.elapsed > call.settledAt
    /\ call.timer = "cleared"
    /\ call.deliveries = 1

\* C10: when processQuery raises, the promise is fulfilled, never rejected,
\* with the error-fallback string, the general suggestions, timedOut: false
\* and error: true.
C10_RaiseResolvesWithFallback ==
    (call.pc \in {"settled", "delivered"} /\ call.raised)
        => /\ call.promise = "fulfilled"
           /\ call.value = [response |-> <<"errorFallback">>,
                            suggestions |-> "general",
                            timedOut |-> FALSE, error |-> TRUE]

\* C10 witness: a call in which processQuery raised has been delivered.
C10_Witness ==
    /\ call.pc = "delivered"
    /\ call.raised
    /\ call.value.error

\* The highest of the seven intent scores of a query text, as processQuery
\* normalizes it.
MaxIntentScore(text) ==
    LET scores == Scores(Trim(ToLowerCase(text))) IN
    CHOOSE m \in {scores[c] : c \in Categories} :
        \A c \in Categories : scores[c] <= m

\* C11 (as claimed): for every query string, the empty and the
\* whitespace-only ones included, whose highest intent score is below 2,
\* processQuery answers with one of the fixed fallback strings and the general
\* suggestions.
C11_LowScoreFallback ==
    (/\ qp.op = "processQuery"
     /\ qp.query.type = "string"
     /\ MaxIntentScore(qp.query.text) < 2)
        => /\ ~qp.threw
           /\ qp.response \in fallbackResponses
           /\ qp.suggestions = "general"

\* C11 (amended): a query string that is not blank and whose highest intent
\* score is below 2 gets one of the fixed fallback strings and the general
\* suggestions; an empty or whitespace-only string gets the fixed "didn't
\* catch that" reply, which is none of the fallback strings, and the general
\* suggestions.
C11_NonBlankLowScoreFallback ==
    (qp.op = "processQuery" /\ qp.query.type = "string")
        => /\ (Trim(qp.query.text) # <<>> /\ MaxIntentScore(qp.query.text) < 2)
                => /\ ~qp.threw
                   /\ qp.response \in fallbackResponses
                   /\ qp.suggestions = "general"
           /\ Trim(qp.query.text) = <<>>
                => /\ ~qp.threw
                   /\ qp.response = <<"didntCatch">>
                   /\ qp.response \notin fallbackResponses
                   /\ qp.suggestions = "general"

\* C11 witness: a query that scores 1 (a partial match of a medium pattern)
\* was answered with a fallback string.
C11_Witness ==
    /\ qp.op = "processQuery"
    /\ qp.query.type = "string"
    /\ MaxIntentScore(qp.query.text) = 1
    /\ qp.response \in fallbackResponses
    /\ qp.suggestions = "general"

\* C12: detectIntent returns 'general' exactly when the highest category
\* score is below 2; otherwise it returns a category with the highest score,
\* and among several with that score the first in the order experience,
\* skills, projects, awards, contact, certifications, personal.
C12_HighestScoreFirstWins ==
    (qp.op = "detectIntent" /\ qp.query.type = "string")
        => LET scores == Scores(Trim(ToLowerCase(qp.query.text)))
               m == MaxIntentScore(qp.query.text)
           IN  /\ (qp.intent = "general") <=> (m < 2)
               /\ m >= 2
                    => \E i \in 1..Len(IntentOrder) :
                          /\ qp.intent = IntentOrder[i]
                          /\ scores[IntentOrder[i]] = m
                          /\ \A j \in 1..(i - 1) : scores[IntentOrder[j]] < m

\* C12 witness: two categories share the highest score, which is at least 2,
\* and the earlier one was returned.
C12_Witness ==
    /\ qp.op = "detectIntent"
    /\ qp.query.type = "string"
    /\ LET scores == Scores(Trim(ToLowerCase(qp.query.text)))
           m == MaxIntentScore(qp.query.text)
       IN  /\ m >= 2
           /\ \E i, j \in 1..Len(IntentOrder) :
                 /\ i < j
                 /\ scores[IntentOrder[i]] = m
                 /\ scores[IntentOrder[j]] = m
                 /\ qp.intent = IntentOrder[i]

\* C13: the response generated for a known category is determined by that
\* category's record alone: replacing the data of every other category, by
\* anything, gives the same outcome.
C13_CategoryPurity ==
    (qp.op = "generateResponse" /\ qp.intent \in Categories)
        => \A other \in DataShapes :
              LET changed == [c \in Categories |->
                                 IF c = qp.intent THEN qp.kb[c] ELSE other]
              IN  GenerateResponse(changed, qp.intent, qp.index)
                      = [threw |-> qp.threw, response |-> qp.response]

\* C13 witness: the awards were rendered from a knowledge base whose other
\* categories hold something else.
C13_Witness ==
    /\ qp.op = "generateResponse"
    /\ qp.intent = "awards"
    /\ ~qp.threw
    /\ qp.response[1] = "entries"
    /\ qp.kb["certifications"] # qp.kb["awards"]
    /\ qp.kb["certifications"].type = "array"
    /\ Len(qp.kb["certifications"].items) > 0

\* C14: the results of search() are in descending order of relevance, with
\* early termination enabled and with it disabled.
C14_SearchSorted ==
    ks.op = "search"
        => \A i \in 1..(Len(ks.results) - 1) :
              RelevanceGeq(ks.results[i].relevance, ks.results[i + 1].relevance)

\* C14 witness: a search that ended early on a high-confidence match found
\* after a weaker one, and returned the stronger first.
C14_Witness ==
    /\ ks.op = "search"
    /\ ks.earlyTermination
    /\ Len(ks.results) >= 2
    /\ ks.results # Search(ks.kb, ks.keywords, FALSE)
    /\ ~RelevanceGeq(ks.results[Len(ks.results)].relevance, ks.results[1].relevance)
    /\ ks.results[1].data = PytestTool
    /\ ks.results[2].data = PythonTesting

InUnitInterval(relevance) ==
    /\ relevance.weight > 0
    /\ 0 <= relevance.halves
    /\ relevance.halves <= 2 * relevance.weight

\* C15: the relevance _calculateRelevance computes, and so the relevance of
\* every result of query and search, is at least 0 and at most 1.
C15_RelevanceInUnitInterval ==
    /\ ks.op = "calculateRelevance" => InUnitInterval(ks.relevance)
    /\ ks.op \in {"query", "search"}
          => \A i \in 1..Len(ks.results) : InUnitInterval(ks.results[i].relevance)

\* C15 witness: every counted keyword matched as a whole word, next to a
\* one-character keyword that occurs in the item and is not counted.
C15_Witness ==
    /\ ks.op = "calculateRelevance"
    /\ ks.relevance = [halves |-> 2, weight |-> 1]
    /\ Len(ks.keywords) = 2
    /\ \E i \in 1..2 :
          /\ Len(ks.keywords[i]) = 1
          /\ Includes(ItemToSearchText(ks.item), ks.keywords[i])

\* the keyword list without its last keyword
AllButLast(keywords) == SubSeq(keywords, 1, Len(keywords) - 1)

\* C16 (as claimed): with one more keyword that matches the item, as a whole
\* word or as a substring, appended to a keyword list, the relevance is not
\* lower than with the list alone.
C16_MatchingKeywordNeverLowers ==
    (/\ ks.op = "calculateRelevance"
     /\ Len(ks.keywords) >= 1
     /\ LET searchText == ToLowerCase(ItemToSearchText(ks.item))
            keyword == ks.keywords[Len(ks.keywords)]
        IN  \/ TestWordBoundary(searchText, ToLowerCase(keyword))
            \/ Includes(searchText, keyword))
        => RelevanceGeq(ks.relevance,
                        CalculateRelevance(ks.item, AllButLast(ks.keywords)))

\* C16 (amended): with one more keyword that matches the item as a whole
\* word appended to a keyword list, the relevance is not lower than with the
\* list alone.
C16_WholeWordKeywordNeverLowers ==
    (/\ ks.op = "calculateRelevance"
     /\ Len(ks.keywords) >= 1
     /\ TestWordBoundary(ToLowerCase(ItemToSearchText(ks.item)),
                         ToLowerCase(ks.keywords[Len(ks.keywords)])))
        => RelevanceGeq(ks.relevance,
                        CalculateRelevance(ks.item, AllButLast(ks.keywords)))

\* C16 witness: a whole-word keyword appended to a keyword that matched as a
\* substring only raised the relevance from 0.5 to 0.75.
C16_Witness ==
    /\ ks.op = "calculateRelevance"
    /\ Len(ks.keywords) = 2
    /\ TestWordBoundary(ToLowerCase(ItemToSearchText(ks.item)),
                        ToLowerCase(ks.keywords[2]))
    /\ CalculateRelevance(ks.item, AllButLast(ks.keywords)) = [halves |-> 1, weight |-> 1]
    /\ ks.relevance = [halves |-> 3, weight |-> 2]

\* how often a result occurs in a list of results
Occurrences(results, result) ==
    Cardinality({i \in 1..Len(results) : results[i] = result})

\* C17 (as claimed): search with early termination returns the same results
\* as search with early termination disabled.
C17_EarlyTerminationSameResults ==
    (ks.op = "search" /\ ks.earlyTermination)
        => ks.results = Search(ks.kb, ks.keywords, FALSE)

\* C17 (amended): search with early termination returns results of the
\* search with early termination disabled, each at most as often, and returns
\* exactly the same results whenever none of those reaches the
\* high-confidence threshold.
C17_EarlyTerminationSubset ==
    (ks.op = "search" /\ ks.earlyTermination)
        => LET full == Search(ks.kb, ks.keywords, FALSE) IN
           /\ \A i \in 1..Len(ks.results) :
                 Occurrences(ks.results, ks.results[i])
                     <= Occurrences(full, ks.results[i])
           /\ (\A i \in 1..Len(full) : ~HighConfidence(full[i].relevance))
                 => ks.results = full

\* C17 witness: the search ended at a high-confidence match in the first
\* category and returned fewer results than the full scan.
C17_Witness ==
    /\ ks.op = "search"
    /\ ks.earlyTermination
    /\ Len(ks.results) >= 1
    /\ Len(ks.results) < Len(Search(ks.kb, ks.keywords, FALSE))
    /\ HighConfidence(ks.results[1].relevance)

\* C18 (as claimed): nothing a caller does to what getHistory() returned,
\* adding, removing or reordering entries or writing to the fields of a
\* returned message, changes the manager's history.
C18_GetHistoryDefensiveCopy ==
    [][(caller' # caller /\ caller'.op \in {"mutateArray", "writeField"})
          => messages' = messages]_vars

C20_NeverThrows ==
    (qp.op = "generateResponse" /\ qp.intent \in Categories) => ~qp.threw

\* how many patterns of each kind a category's score is made of: high
\* patterns that occur as a substring; high patterns that do not but match
\* as a whole word; medium patterns that match as a whole word; medium
\* patterns that do not but occur as a substring
Contributions(normalizedQuery, intent) ==
    LET high == intentPatterns[intent].high
        medium == intentPatterns[intent].medium
    IN  [highPhrase |->
             Cardinality({i \in 1..Len(high) : Includes(normalizedQuery, high[i])}),
         highWord |->
             Cardinality({i \in 1..Len(high) :
                 /\ ~Includes(normalizedQuery, high[i])
                 /\ TestWordBoundary(normalizedQuery, high[i])}),
         mediumWord |->
             Cardinality({i \in 1..Len(medium) :
                 TestWordBoundary(normalizedQuery, medium[i])}),
         mediumPartial |->
             Cardinality({i \in 1..Len(medium) :
                 /\ ~TestWordBoundary(normalizedQuery, medium[i])
                 /\ Includes(normalizedQuery, medium[i])})]

\* C30: in detectIntent a high pattern contributes 5 when it occurs in the
\* query as a substring, 4 when it does not but matches as a whole word, else
\* 0; a medium pattern contributes 2 for a whole-word match, else 1 for a
\* substring match, else 0; a category's score is the sum of the
\* contributions of its patterns.
C30_ScoreIsSumOfContributions ==
    (qp.op = "detectIntent" /\ qp.query.type = "string" /\ qp.query.text # <<>>)
        => LET normalizedQuery == Trim(ToLowerCase(qp.query.text)) IN
           \A intent \in Categories :
               LET n == Contributions(normalizedQuery, intent) IN
               /\ \A i \in 1..Len(intentPatterns[intent].high) :
                      HighScore(normalizedQuery, intentPatterns[intent].high[i])
                          \in {0, 4, 5}
               /\ \A i \in 1..Len(intentPatterns[intent].medium) :
                      MediumScore(normalizedQuery, intentPatterns[intent].medium[i])
                          \in {0, 1, 2}
               /\ Scores(normalizedQuery)[intent]
                      = 5 * n.highPhrase + 4 * n.highWord
                        + 2 * n.mediumWord + n.mediumPartial

\* a detectIntent call in which one category's score is made of a high
\* pattern met as a phrase, a medium pattern met as a whole word and a
\* medium pattern met only as a part of a word
C30_Witness ==
    /\ qp.op = "detectIntent"
    /\ qp.query.type = "string"
    /\ LET normalizedQuery == Trim(ToLowerCase(qp.query.text)) IN
       /\ \E intent \in Categories :
              Contributions(normalizedQuery, intent).highPhrase > 0
       /\ \E intent \in Categories :
              Contributions(normalizedQuery, intent).mediumWord > 0
       /\ \E intent \in Categories :
              Contributions(normalizedQuery, intent).mediumPartial > 0

\* the windows of other conversations: other messages, in other numbers
OtherContexts ==
    LET about(text, sender) ==
            [id |-> <<"msg", 2, 1>>, content |-> text, sender |-> sender,
             timestamp |-> 2]
    IN  { <<>>,
          <<about("projects", "user")>>,
          <<about("projects", "user"), about("awards", "bot")>>,
          <<about("contact", "bot"), about("skills", "user"),
            about("skills", "bot")>> }

\* C21 (as claimed): the response processQuery produces for a follow-up
\* question depends on the context window passed with it: some other window
\* would have given the same question another response.
C21_ResponseDependsOnContext ==
    (qp.op = "processQuery" /\ caller.op = "getContext" /\ Len(caller.held) > 0)
        => \E context \in OtherContexts :
              ProcessQueryWithContext(knowledgeBase, qp.query, context, qp.index).response
                  # qp.response

\* C26 (as claimed): with restore() of blobs this manager serialized, older
\* snapshots that roll the id counter back included, no message added later
\* gets an id already issued in the session, whatever the clock reads.
C26_IdsUniqueAcrossRestore ==
    \A later \in 1..Len(added) :
        \A earlier \in 1..(later - 1) :
            added[later].id # added[earlier].id

\* C24: restore() does not enforce the cap: a restored history longer than
\* maxMessages is kept as the blob gives it; while the history is over the
\* cap, reading it and a rejected addMessage leave it as it is; the next
\* message added trims it to the most recent maxMessages messages, the new
\* one included.
C24_RestoreKeepsOverCap ==
    [][/\ (last'.op = "restore" /\ Len(storage.snapMessages) > maxMessages)
            => /\ last'.ret = "true"
               /\ messages' = storage.snapMessages
               /\ Len(messages') > maxMessages'
       /\ (Len(messages) > maxMessages /\ last'.op \in {"serialize", "addMessage"})
            => IF added' = added
               THEN messages' = messages
               ELSE /\ Len(messages') = maxMessages
                    /\ messages' = LastN(Append(messages, added'[Len(added')]),
                                         maxMessages)
      ]_vars

\* a history of three messages restored into a manager whose cap is two, and
\* a message added then: the history is the last restored message and the new
\* one
C24_Witness ==
    /\ last.op = "addMessage"
    /\ last.ret = "message"
    /\ maxMessages = 2
    /\ Len(storage.snapMessages) = 3
    /\ Len(added) = 4
    /\ messages = <<storage.snapMessages[3], added[4]>>

\* C28 (as claimed): however many lazyLoad calls are made, calls made before
\* the first initialization has run included, the init callback runs at most
\* once and every promise that resolves resolves with one and the same
\* instance.
C28_InitOnceSameInstance ==
    loader.pc = "defined"
        => /\ loader.initRuns <= 1
           /\ \A p, q \in 1..Len(loader.promises) :
                  (loader.promises[p].state = "fulfilled"
                   /\ loader.promises[q].state = "fulfilled")
                      => loader.promises[p].value = loader.promises[q].value

(***************************************************************************)
(* C22.  Opening and closing the widget                                    *)
(***************************************************************************)

\* a click on the element, or a tap that _handleTouchEnd treated as a click
Activated(e, target) ==
    /\ e.target = target
    /\ e.type = "click" \/ (e.type = "touchend" /\ e.tap)

\* the step is one handler of a rendered widget
WidgetStep == widget.pc = "rendered" /\ widget'.pc # "none"

\* Activating the floating button while closed opens the widget, and
\* activating the close button while open closes it.
ButtonsOpenAndClose ==
    /\ Activated(widget'.event, "floatingButton") /\ ~widget.isOpen
          => widget'.isOpen
    /\ Activated(widget'.event, "closeButton") /\ widget.isOpen
          => ~widget'.isOpen

\* C22 as stated: activating the floating button (click or tap) while the
\* widget is closed opens it, activating the close button while it is open
\* closes it, and isOpen changes in no other way.
C22_IsOpenChangesOnlyByTheseTransitions ==
    [][WidgetStep =>
          /\ ButtonsOpenAndClose
          /\ widget'.isOpen # widget.isOpen =>
                \/ Activated(widget'.event, "floatingButton") /\ ~widget.isOpen
                \/ Activated(widget'.event, "closeButton") /\ widget.isOpen]_vars

\* C22 amended: the two transitions hold, and isOpen changes only through
\* them, through activating the floating button while open (which closes),
\* through a swipe down on the header or from the top of the message list
\* while open (which closes), through a call of open() or close(), and
\* through destroy() (which sets it to false).
C22_IsOpenTransitions ==
    [][WidgetStep =>
          /\ ButtonsOpenAndClose
          /\ widget'.isOpen # widget.isOpen =>
                \/ Activated(widget'.event, "floatingButton")
                \/ Activated(widget'.event, "closeButton") /\ widget.isOpen
                \/ /\ widget'.event.type = "touchend"
                   /\ widget'.event.swipe
                   /\ widget'.event.target \in {"header", "messagesContainer"}
                   /\ widget.isOpen
                \/ widget'.event.type = "open" /\ ~widget.isOpen
                \/ widget'.event.type = "close" /\ widget.isOpen
                \/ widget'.event.type = "destroy" /\ widget.isOpen]_vars

\* A tap on the floating button has just opened the widget: the handler
\* closes an open widget, so an open one after it was closed before.
C22_Witness ==
    /\ widget.pc = "rendered"
    /\ widget.event.type = "touchend"
    /\ widget.event.tap
    /\ widget.event.target = "floatingButton"
    /\ widget.isOpen
    /\ FocusDelay \in widget.focusTimers

(***************************************************************************)
(* C27.  Debounce of rapid submissions                                     *)
(***************************************************************************)

\* C27 as stated: when _submitMessage runs with a valid message less than
\* the debounce delay after the previous valid submission, it does not
\* invoke onMessageSubmit.
C27_RapidSubmissionNotInvoked ==
    widget.pc = "rendered" /\ widget.event.valid /\ widget.event.rapid
        => ~widget.event.invoked

(***************************************************************************)
(* C29.  Callbacks that outlive destroy()                                  *)
(***************************************************************************)

\* C29 as stated: after destroy() no callback scheduled before it (focus
\* timer, error removal timer, debounced submit timer, completion of a
\* pending submit) reads a property of a cleared element reference or
\* raises an error.
C29_NoCallbackRaisesAfterDestroy ==
    widget.pc = "destroyed" => ~widget.raised

(***************************************************************************)
(* C23.  The conversation is preserved across page loads                   *)
(***************************************************************************)

RepliesTo(content) ==
    {AwaitedResult(query, <<>>, raised).response :
        query \in {q \in PageQueries : QueryText(q).text = content},
        raised \in BOOLEAN}

\* C25: every user message in the history is followed at once by the bot
\* reply to it; only the last message can be a user message without its
\* reply, and only while its handler has not finished.
C25_ExchangesNeverInterleave ==
    page.pc # "none" =>
        \A i \in 1..Len(messages) :
            messages[i].sender = "user" =>
                IF i < Len(messages)
                THEN /\ messages[i + 1].sender = "bot"
                     /\ messages[i + 1].content \in RepliesTo(messages[i].content)
                ELSE page.pc = "awaiting"

\* Two exchanges about different things have completed.
C25_Witness ==
    /\ page.pc = "idle"
    /\ Len(messages) >= 4
    /\ \E i \in 1..(Len(messages) - 3) :
          /\ messages[i].sender = "user"
          /\ messages[i + 1].sender = "bot"
          /\ messages[i + 2].sender = "user"
          /\ messages[i + 3].sender = "bot"
          /\ messages[i].content # messages[i + 2].content
          /\ messages[i + 1].content # messages[i + 3].content

====
